---- MODULE Spec2Model ----
(***************************************************************************)
(* A model of the Commons downloader (src/unnamed/part_001): the quota     *)
(* gate, the content validator with its hash index, the bounded worker     *)
(* pool, the orchestrator main() with its checkpoint, and the supervisor   *)
(* startLoop().  One step of the model is one turn of the event loop: the  *)
(* code that runs between two awaits.                                      *)
(***************************************************************************)
EXTENDS Integers, Sequences, FiniteSets, TLC

\* ------------------------------------------------------------------ bounds
\* largest finite limit a quota is created with
MaxLimit == 2
\* tokens handed out by one quota
MaxTokens == 3
\* calls of commit(), and of release(), made on one token
MaxCalls == 2
\* invocations of main() in one history (supervisor restarts and new processes)
MaxRuns == 2
\* discovery pages that fail on all their tries in one history
MaxPageFails == 1
\* largest conc runPool is called with, longest list of items, calls of runPool
\* made one after the other
MaxConc == 2
MaxItems == 3
MaxPoolCalls == 2

\* ------------------------------------------------------------------- state
VARIABLES
    \* the quota gate: the closure of createQuota, the limit it was created
    \* with, and (for the quota taken alone) the tokens take() has returned
    quota, quotaLimit, tokens,
    \* the disk: checkpoint file, hash index file (its lines), output directory
    ckptFile, hashIdx, files,
    \* the saved count of the checkpoint last written in full, 0 before any write
    wrote,
    \* the process: the module-level Map seen, the position of main() and its
    \* locals, the queue of runPool, the worker invocations in flight
    seen, mpc, ck, latestCk, si, offset, saved, done, q, pageAttempt, workers,
    \* history: the number of the current invocation of main, the discovery pages
    \* that failed, the length of the hash index when it was loaded, the first and
    \* the last discovery request of the current invocation, the pages run
    \* through the pool, the partitions abandoned, the position the first
    \* invocation started from
    runNo, fails, idxAtLoad, firstReq, lastReq, processed, abandoned, startPos,
    \* history: the locals si, offset and saved of the last main() of this
    \* process that failed, as they were when it failed
    lost,
    \* the remote world the run meets: "general" (any answer, any failure) or
    \* "e2e" (two full pages, every download succeeds)
    scenario,
    \* runPool taken alone: its parameters conc and items, its locals q and
    \* running, and the history of its calls (the items in the order their
    \* worker was started, the items whose worker has returned, how the call
    \* ended, the number of calls made, the invocations in flight that a call
    \* that failed has left behind)
    pConc, pItems, pQueue, pRunning, pAdmitted, pFinished, pState, pCalls, pOrphans,
    \* one logical request taken alone: which of the three retry loops runs it,
    \* the loop counter, the answers received, the delays waited, the locals
    \* lastStatus and lastError, how the call ended and what its error carries
    rKind, rAttempt, rAns, rDelays, rLastStatus, rLastError, rState, rCarried,
    \* the license classification taken alone: the license string reported,
    \* the allow-list LICENSES, the entry computed for the title
    licShort, LICENSES, licOut,
    \* processBatch taken alone, up to its call of runPool: the command line
    \* of the process, the titles of the page, what the Commons API reports for
    \* each title, the list todo handed to runPool, how the call ended
    bArgv, bTitles, bInfo, bTodo, bState,
    \* the first version of the downloader (src/commons-downloader.js) taken
    \* alone: LIMIT, CONCURRENCY, the pages the source still holds (per
    \* partition, the number of allowed candidates on each page), the position
    \* of main(), its local saved, the property count of the function
    \* processBatch is given, the queue and the size of running of runPool, the
    \* number of files saved, the saved count of the checkpoint file and the
    \* number of files saved when that checkpoint was written
    oLimit, oConc, oPlan, oPc, oSaved, oCount, oQueue, oRunning, oFiles, oCkSaved,
    oCkFiles,
    \* yearSlices taken alone: its arguments from, to and span, the list of the
    \* ranges it has yielded, whether it has been run
    yFrom, yTo, ySpan, ySlices, yState

quotaVars == <<quota, quotaLimit, tokens>>
diskVars == <<ckptFile, hashIdx, files, wrote>>
mainVars == <<mpc, ck, latestCk, si, offset, saved, done, q, pageAttempt>>
histVars == <<runNo, fails, idxAtLoad, firstReq, lastReq, processed, abandoned, startPos,
              lost>>
poolVars == <<pConc, pItems, pQueue, pRunning, pAdmitted, pFinished, pState, pCalls,
              pOrphans>>
retryVars == <<rKind, rAttempt, rAns, rDelays, rLastStatus, rLastError, rState, rCarried>>
licVars == <<licShort, LICENSES, licOut>>
batchVars == <<bArgv, bTitles, bInfo, bTodo, bState>>
oldVars == <<oLimit, oConc, oPlan, oPc, oSaved, oCount, oQueue, oRunning, oFiles, oCkSaved,
             oCkFiles>>
sliceVars == <<yFrom, yTo, ySpan, ySlices, yState>>
sideVars == <<scenario, poolVars, retryVars, licVars, batchVars, oldVars, sliceVars>>
vars == <<quotaVars, diskVars, seen, mainVars, workers, histVars, sideVars>>

\* ------------------------------------------------------- command line, flags
\* JavaScript values the flag parser handles: booleans and strings
JsBool(b) == [t |-> "bool", b |-> b, s |-> ""]
JsStr(s) == [t |-> "str", b |-> FALSE, s |-> s]
\* !!v
ToBoolean(v) == IF v.t = "bool" THEN v.b ELSE v.s # ""

\* process.argv.slice(2): each element is an option name ("--name") or a value.
\* The command line modelled asks for every boolean flag to be off.
args ==
    << [opt |-> TRUE, s |-> "debug"], [opt |-> FALSE, s |-> "false"],
       [opt |-> TRUE, s |-> "noNdjson"], [opt |-> FALSE, s |-> "false"],
       [opt |-> TRUE, s |-> "noLicenseFilter"], [opt |-> FALSE, s |-> "false"] >>

\* args.indexOf(`--${name}`), 1-based; 0 when absent
ArgIndex(argv, name) ==
    LET hits == {i \in 1..Len(argv) : argv[i].opt /\ argv[i].s = name}
    IN  IF hits = {} THEN 0 ELSE CHOOSE i \in hits : \A j \in hits : i <= j

\* flag(name, d): d when the option is absent, true when it has no value (or the
\* next element is another option), otherwise the value string
flag(argv, name, d) ==
    LET i == ArgIndex(argv, name)
    IN  IF i = 0 THEN d
        ELSE IF i + 1 > Len(argv) THEN JsBool(TRUE)
        ELSE IF argv[i + 1].s = "" \/ argv[i + 1].opt THEN JsBool(TRUE)
        ELSE JsStr(argv[i + 1].s)

\* debug logging off
DebugOff == FALSE

DEBUG == ToBoolean(flag(args, "debug", JsBool(TRUE)))
NO_NDJSON == ToBoolean(flag(args, "noNdjson", JsBool(TRUE)))
\* const NO_LICENSE_FILTER = !!flag('noLicenseFilter', true), for the command
\* line argv
NoLicenseFilter(argv) == ToBoolean(flag(argv, "noLicenseFilter", JsBool(TRUE)))
NO_LICENSE_FILTER == NoLicenseFilter(args)

\* ------------------------------------------------------------ configuration
\* the values the run is configured with (--from, --to, --yearsPerSlice,
\* --batch, --concurrency)
YEAR_FROM == 2000
YEAR_TO == 2001
span == 1
pageSize == 2
pageRetries == 1
CONCURRENCY == 2
\* Infinity, as a number larger than every count of the model
Infinity == 1000000
HARD == Infinity
isFinite(x) == x < Infinity

Min(a, b) == IF a <= b THEN a ELSE b
Max(a, b) == IF a >= b THEN a ELSE b

\* a generator that does not clamp the end of a range to `to`
RECURSIVE yearSlicesNoClamp(_, _, _)
yearSlicesNoClamp(from, to, sp) ==
    IF from <= to
    THEN LET b == from + sp - 1
         IN  <<  <<from, b>>  >> \o yearSlicesNoClamp(b + 1, to, sp)
    ELSE << >>

\* function* yearSlices(from, to, span): the list it yields
RECURSIVE yearSlices(_, _, _)
yearSlices(from, to, sp) ==
    IF from <= to
    THEN LET b == Min(from + sp - 1, to)
         IN  <<  <<from, b>>  >> \o yearSlices(b + 1, to, sp)
    ELSE << >>

slices == yearSlices(YEAR_FROM, YEAR_TO, span)

\* --------------------------------------------------- remote content, titles
\* A response body: its length in bytes, its leading bytes, the content type the
\* transport reports.  Contents 1 and 2 are valid images; 3 is an undersized
\* JPEG and 5 an undersized HTML page; 4 is an HTML page; 6 has no signature and
\* an image content type; 7 has the WEBP signature and the content type
\* text/html; 8 to 11 are four more valid images.
Contents == 1..11
Size(c) == CASE c = 2 -> 4096 [] c \in {3, 5} -> 500 [] OTHER -> 2048
HtmlHead == <<60, 104, 116, 109, 108, 62>>
HeadBytes(c) ==
    CASE c = 2 -> <<137, 80, 78, 71, 13, 10, 26, 10>>
      [] c = 3 -> <<255, 216>>
      [] c \in {4, 5, 6} -> HtmlHead
      [] c = 7 -> <<82, 73, 70, 70, 0, 8, 0, 0, 87, 69, 66, 80>>
      [] OTHER -> <<255, 216, 255, 224>>
ContentType(c) ==
    CASE c = 2 -> "image/png"
      [] c \in {4, 5, 7} -> "text/html"
      [] OTHER -> "image/jpeg"

\* hash.digest('hex') of the whole stream: distinct contents, distinct digests
Sha256(c) == 100 + c

\* looksImage(ct): starts with image/ or contains octet-stream (case-insensitive)
looksImage(ct) ==
    ct \in {"image/jpeg", "image/png", "image/webp", "IMAGE/PNG",
            "application/octet-stream"}

\* magicKind(buf) on the first bytes of the stream
magicKind(buf) ==
    IF Len(buf) >= 2 /\ buf[1] = 255 /\ buf[2] = 216 THEN "jpg"
    ELSE IF Len(buf) >= 8 /\ buf[1] = 137 /\ buf[2] = 80 /\ buf[3] = 78 /\ buf[4] = 71
    THEN "png"
    ELSE IF Len(buf) >= 12
            /\ SubSeq(buf, 1, 4) = <<82, 73, 70, 70>>
            /\ SubSeq(buf, 9, 12) = <<87, 69, 66, 80>>
    THEN "webp"
    ELSE "null"

extFor(kind) == IF kind = "png" THEN ".png" ELSE IF kind = "webp" THEN ".webp" ELSE ".jpg"

\* Commons titles the discovery source can return.  Titles 1, 2 and 3 are three
\* identifiers of the same bytes, and titles 1 and 2 differ in their extension
\* only, so that they have the same sanitized base name; title 4 has that base
\* name too, and other bytes of the same format; title 5 holds a lone surrogate, on which
\* encodeURIComponent throws; the server answers title 6 with a body that is
\* undersized, or not an image, or an image by its signature or its content
\* type only; titles 7 to 10 are four files with distinct names and distinct
\* bytes.
Titles == 1..10
\* join(OUT_DIR, sanitize(title without File:) without its extension)
Base(t) == CASE t = 1 -> "a" [] t = 2 -> "a" [] t = 3 -> "c" [] t = 4 -> "a"
             [] t = 5 -> "e" [] t = 6 -> "f" [] t = 7 -> "g" [] t = 8 -> "h"
             [] t = 9 -> "i" [] OTHER -> "j"
\* filePathUrl(title) throws URIError
Malformed(t) == t = 5
\* the bodies the file server may answer with
Served(t) ==
    CASE t \in {1, 2, 3} -> {1} [] t = 4 -> {8} [] t = 5 -> {}
      [] t = 6 -> {3, 4, 5, 6, 7} [] OTHER -> {t + 1}

\* fetchWikidataBatchPaged({yearFrom, yearTo, limit, offset}) on success: the rows
\* of partition i at the offset.  The query has no ORDER BY, so a page may differ
\* from one request to the next; the candidate space is finite.
SourcePages(i, off) ==
    CASE scenario = "e2e" /\ i = 1 /\ off = 0 -> { <<7, 8>> }
      [] scenario = "e2e" /\ i = 2 /\ off = 0 -> { <<9, 10>> }
      [] scenario = "e2e" -> { << >> }
      [] i = 1 /\ off = 0 -> { <<1, 2>> }
      [] i = 1 /\ off = pageSize -> { <<3>>, <<3, 5>> }
      [] i = 2 /\ off = 0 -> { <<4>> }
      [] i = 2 /\ off = pageSize -> { <<6>> }
      [] OTHER -> { << >> }

\* ------------------------------------------------------------------- quota
\* createQuota(limit, initialSaved): the closure's state
createQuota(limit, initialSaved) ==
    IF ~isFinite(limit) \/ limit <= 0
    THEN [unlimited |-> TRUE, remaining |-> 0]
    ELSE [unlimited |-> FALSE, remaining |-> Max(0, limit - initialSaved)]

\* a token: its closure variable committed, and the calls made on it
NewToken == [committed |-> FALSE, nCommit |-> 0, nRelease |-> 0]

\* take(): the quota afterwards and the token (<< >> for null)
take(qt) ==
    IF qt.unlimited THEN [quota |-> qt, tok |-> <<NewToken>>]
    ELSE IF qt.remaining <= 0 THEN [quota |-> qt, tok |-> << >>]
    ELSE [quota |-> [qt EXCEPT !.remaining = @ - 1], tok |-> <<NewToken>>]

\* token.commit()
commit(qt, tok) ==
    [quota |-> qt,
     tok |-> [tok EXCEPT !.committed = IF qt.unlimited THEN @ ELSE TRUE,
                         !.nCommit = @ + 1]]

\* token.release()
release(qt, tok) ==
    [quota |-> IF ~qt.unlimited /\ ~tok.committed
               THEN [qt EXCEPT !.remaining = @ + 1] ELSE qt,
     tok |-> [tok EXCEPT !.nRelease = @ + 1]]

\* a Map, or a directory, that holds nothing
EmptyFn == [x \in {} |-> 0]
\* map.delete(k), unlink(path)
Without(f, k) == [x \in DOMAIN f \ {k} |-> f[x]]

\* the checkpoint file: absent, unparseable, or the JSON record saveJSON wrote
NoFile == [kind |-> "none"]
Corrupt == [kind |-> "corrupt"]
Json(a, b, off, sv, dn) ==
    [kind |-> "json", sliceFrom |-> a, sliceTo |-> b, offset |-> off,
     saved |-> sv, done |-> dn]

\* the locals of main() before it has loaded anything
IdleMain ==
    /\ mpc = "init"
    /\ ck = NoFile
    /\ latestCk = NoFile
    /\ si = 0
    /\ offset = 0
    /\ saved = 0
    /\ done = FALSE
    /\ q = << >>
    /\ pageAttempt = 0

\* runPool, the retry loops and the license classification not in use
PoolIdle ==
    /\ pConc = 0
    /\ pItems = << >>
    /\ pQueue = << >>
    /\ pRunning = {}
    /\ pAdmitted = << >>
    /\ pFinished = {}
    /\ pState = "idle"
    /\ pCalls = 0
    /\ pOrphans = {}

RetryIdle ==
    /\ rKind = "none"
    /\ rAttempt = 0
    /\ rAns = << >>
    /\ rDelays = << >>
    /\ rLastStatus = 0
    /\ rLastError = ""
    /\ rState = "idle"
    /\ rCarried = << >>

LicenseIdle ==
    /\ licShort = << >>
    /\ LICENSES = {}
    /\ licOut = << >>

\* processBatch and the first version of the downloader not in use
BatchIdle ==
    /\ bArgv = << >>
    /\ bTitles = << >>
    /\ bInfo = << >>
    /\ bTodo = << >>
    /\ bState = "idle"

\* yearSlices not in use
SliceIdle ==
    /\ yFrom = 0
    /\ yTo = 0
    /\ ySpan = 0
    /\ ySlices = << >>
    /\ yState = "idle"

OldIdle ==
    /\ oLimit = 0
    /\ oConc = 0
    /\ oPlan = << >>
    /\ oPc = "idle"
    /\ oSaved = 0
    /\ oCount = 0
    /\ oQueue = 0
    /\ oRunning = 0
    /\ oFiles = 0
    /\ oCkSaved = 0
    /\ oCkFiles = 0

NoHistory ==
    /\ runNo = 1
    /\ fails = 0
    /\ idxAtLoad = 0
    /\ firstReq = << >>
    /\ lastReq = << >>
    /\ processed = {}
    /\ abandoned = {}
    /\ startPos = << >>
    /\ lost = << >>

\* ------------------------------------------- the quota gate taken alone
\* A quota created by createQuota(L, 0) and used by callers that call take(),
\* and commit() and release() on the tokens they hold, in any order.
QuotaInit ==
    /\ quotaLimit \in 1..MaxLimit
    /\ quota = createQuota(quotaLimit, 0)
    /\ tokens = << >>
    /\ ckptFile = NoFile
    /\ wrote = 0
    /\ hashIdx = << >>
    /\ files = EmptyFn
    /\ seen = EmptyFn
    /\ workers = {}
    /\ IdleMain
    /\ NoHistory
    /\ scenario = "general"
    /\ PoolIdle
    /\ RetryIdle
    /\ LicenseIdle
    /\ SliceIdle
    /\ BatchIdle
    /\ OldIdle

QuotaTake ==
    /\ Len(tokens) < MaxTokens
    /\ LET r == take(quota)
       IN  /\ quota' = r.quota
           /\ tokens' = tokens \o r.tok
    /\ UNCHANGED <<sideVars, quotaLimit, diskVars, seen, mainVars, workers, histVars>>

QuotaCommit(i) ==
    /\ tokens[i].nCommit < MaxCalls
    /\ LET r == commit(quota, tokens[i])
       IN  /\ quota' = r.quota
           /\ tokens' = [tokens EXCEPT ![i] = r.tok]
    /\ UNCHANGED <<sideVars, quotaLimit, diskVars, seen, mainVars, workers, histVars>>

QuotaRelease(i) ==
    /\ tokens[i].nRelease < MaxCalls
    /\ LET r == release(quota, tokens[i])
       IN  /\ quota' = r.quota
           /\ tokens' = [tokens EXCEPT ![i] = r.tok]
    /\ UNCHANGED <<sideVars, quotaLimit, diskVars, seen, mainVars, workers, histVars>>

QuotaNext ==
    \/ QuotaTake
    \/ \E i \in 1..Len(tokens) : QuotaCommit(i)
    \/ \E i \in 1..Len(tokens) : QuotaRelease(i)

QuotaSpec == QuotaInit /\ [][QuotaNext]_vars

\* tokens on which commit() has been called
CommittedTokens == {i \in 1..Len(tokens) : tokens[i].nCommit > 0}
\* tokens taken on which neither commit() nor release() has been called
OutstandingTokens ==
    {i \in 1..Len(tokens) : tokens[i].nCommit = 0 /\ tokens[i].nRelease = 0}

\* C1: for a quota created with a finite limit L > 0, whatever sequence of
\* take(), commit() and release() calls is made, the number of tokens on which
\* commit() has been called never exceeds L.
C1_CommitsNeverExceedLimit == Cardinality(CommittedTokens) <= quotaLimit

\* C2: in every reachable state of a finite quota created with limit L,
\* remaining + outstanding uncommitted tokens + committed tokens = L, and
\* remaining stays within 0..L.
C2_QuotaConservation ==
    /\ quota.remaining + Cardinality(OutstandingTokens) + Cardinality(CommittedTokens)
         = quotaLimit
    /\ quota.remaining >= 0
    /\ quota.remaining <= quotaLimit

\* ------------------------------------------------------ runPool taken alone
\* runPool(items, worker, conc) called, one call after the other has returned,
\* by a caller that awaits it, with a worker function of which an invocation,
\* once started, either returns or throws.
Range(seq) == {seq[i] : i \in DOMAIN seq}

\* the lists of items: every list without repetition of at most MaxItems items
ItemLists ==
    UNION {{l \in [1..n -> 1..MaxItems] : \A i, j \in 1..n : i # j => l[i] # l[j]} :
              n \in 0..MaxItems}

\* a queue served from its end
Pop(queue) == [it |-> queue[Len(queue)], rest |-> SubSeq(queue, 1, Len(queue) - 1)]

\* q.shift()
Shift(queue) == [it |-> Head(queue), rest |-> Tail(queue)]

\* an inner loop that starts a worker for every queued item
AdmitEager(queue, n, conc) == [q |-> << >>, started |-> queue]

\* the inner while loop: while (q.length > 0 && running.size < conc), n being
\* running.size; the queue it leaves and the items it started, in order
RECURSIVE Admit(_, _, _)
Admit(queue, n, conc) ==
    IF queue = << >> \/ n >= conc THEN [q |-> queue, started |-> << >>]
    ELSE LET sh == Shift(queue)
             r == Admit(sh.rest, n + 1, conc)
         IN  [q |-> r.q, started |-> <<sh.it>> \o r.started]

\* the outer loop from its top, with cur in flight: admit, then either wait
\* (Promise.race) or, with nothing queued and nothing in flight, return
PoolLoop(queue, cur) ==
    LET r == Admit(queue, Cardinality(cur), pConc)
    IN  /\ pQueue' = r.q
        /\ pRunning' = cur \cup Range(r.started)
        /\ pAdmitted' = pAdmitted \o r.started
        /\ pState' = IF r.q = << >> /\ cur \cup Range(r.started) = {}
                     THEN "returned" ELSE "running"

PoolInit ==
    /\ quotaLimit = HARD
    /\ quota = createQuota(HARD, 0)
    /\ tokens = << >>
    /\ ckptFile = NoFile
    /\ wrote = 0
    /\ hashIdx = << >>
    /\ files = EmptyFn
    /\ seen = EmptyFn
    /\ workers = {}
    /\ IdleMain
    /\ NoHistory
    /\ scenario = "general"
    /\ pConc \in 1..MaxConc
    /\ pItems = << >>
    /\ pQueue = << >>
    /\ pRunning = {}
    /\ pAdmitted = << >>
    /\ pFinished = {}
    /\ pState = "idle"
    /\ pCalls = 0
    /\ pOrphans = {}
    /\ RetryIdle
    /\ LicenseIdle
    /\ SliceIdle
    /\ BatchIdle
    /\ OldIdle

PoolUnchanged ==
    UNCHANGED <<quotaVars, diskVars, seen, mainVars, workers, histVars, scenario, sliceVars,
                pConc, retryVars, licVars, batchVars, oldVars>>

\* runPool(items, worker, conc) is called: q = [...items], running = new Set(),
\* then the loop up to its first await
P_Call ==
    /\ pState \in {"idle", "returned"}
    /\ pCalls < MaxPoolCalls
    /\ pCalls' = pCalls + 1
    /\ \E items \in ItemLists :
        /\ pItems' = items
        /\ LET r == Admit(items, 0, pConc)
           IN  /\ pQueue' = r.q
               /\ pRunning' = Range(r.started)
               /\ pAdmitted' = r.started
               /\ pState' = IF items = << >> THEN "returned" ELSE "running"
    /\ pFinished' = {}
    /\ pOrphans' = pOrphans
    /\ PoolUnchanged

\* the worker invocation of item it returns: finally deletes its promise,
\* Promise.race resolves and runPool goes round its loop
P_Finish(it) ==
    /\ pState = "running"
    /\ it \in pRunning
    /\ pFinished' = pFinished \cup {it}
    /\ PoolLoop(pQueue, pRunning \ {it})
    /\ UNCHANGED <<pItems, pCalls, pOrphans>>
    /\ PoolUnchanged

\* the worker invocation of item it throws: its promise rejects, Promise.race
\* rejects, and the await in runPool throws: runPool rejects with the other
\* invocations still in flight and its queue as it is
P_Throw(it) ==
    /\ pState = "running"
    /\ it \in pRunning
    /\ pState' = "rejected"
    /\ pRunning' = {}
    /\ pOrphans' = pRunning \ {it}
    /\ UNCHANGED <<pItems, pQueue, pAdmitted, pFinished, pCalls>>
    /\ PoolUnchanged

\* an invocation left in flight by a call that failed returns
P_OrphanFinish(it) ==
    /\ it \in pOrphans
    /\ pOrphans' = pOrphans \ {it}
    /\ pFinished' = pFinished \cup {it}
    /\ UNCHANGED <<pItems, pQueue, pRunning, pAdmitted, pState, pCalls>>
    /\ PoolUnchanged

PoolNext ==
    \/ P_Call
    \/ \E it \in 1..MaxItems : P_Finish(it)
    \/ \E it \in 1..MaxItems : P_Throw(it)
    \/ \E it \in 1..MaxItems : P_OrphanFinish(it)

PoolSpec == PoolInit /\ [][PoolNext]_vars

\* runPool with a worker whose invocations all return, each of them eventually
PoolLiveNext ==
    \/ P_Call
    \/ \E it \in 1..MaxItems : P_Finish(it)

PoolLiveSpec ==
    PoolInit /\ [][PoolLiveNext]_vars /\ WF_vars(\E it \in 1..MaxItems : P_Finish(it))

\* C12: at every instant the worker invocations that have started and not
\* finished, those of calls made earlier included, are at most conc.
C12_InFlightAtMostConc == Cardinality(pRunning \cup pOrphans) <= pConc

\* C12, its case: in a second call the pool is full and an item waits in the queue
C12_Witness ==
    /\ pCalls = 2
    /\ Cardinality(pRunning) = pConc
    /\ pQueue # << >>

\* runPool has returned only with its queue empty and nothing in flight, every
\* item started once and in the order of the list, every invocation returned;
\* and it has not returned while an item is queued or in flight
PoolReturnsWhenDrained ==
    /\ pState = "returned" =>
          /\ pQueue = << >>
          /\ pRunning = {}
          /\ pAdmitted = pItems
          /\ pFinished = Range(pItems)
    /\ pState = "running" => (pQueue # << >> \/ pRunning # {})

\* C13: with a worker whose invocations all eventually return, a call of
\* runPool returns, and it returns exactly when its queue is empty and nothing
\* is in flight, the worker having been started once for every item, in the
\* order of the list.
C13_PoolTerminatesDrained ==
    /\ []PoolReturnsWhenDrained
    /\ (pState = "running") ~> (pState = "returned")

\* C13, its case: a call with more items than conc has returned
C13_Witness ==
    /\ pState = "returned"
    /\ Len(pItems) > pConc
    /\ pAdmitted = pItems
    /\ pFinished = Range(pItems)

\* C14: a worker invocation that fails does not make runPool fail.
C14_WorkerFailureDoesNotAbortPool == pState # "rejected"

\* ------------------------------------------- one logical request taken alone
\* The three retry loops: that of downloadValidated (a file download), that of
\* fetchWikidataBatchPaged (a discovery page) and that of fetchCommonsInfoChunk
\* (a license chunk).  One step is one request with the handling of its answer.

\* an answer of the remote service: a response with its status, or the error
\* fetch rejects with (a network error, or the abort of the timeout)
Resp(status) == [status |-> status, err |-> ""]
Fail(err) == [status |-> 0, err |-> err]
Answers == {Resp(200), Resp(503), Resp(404), Fail("network"), Fail("timeout")}

\* res.ok
Ok(a) == a.err = "" /\ a.status >= 200 /\ a.status <= 299
\* needsRetry(code)
needsRetry(code) == code \in {429, 500, 502, 503, 504}

\* the bound of the for loop: attempt <= 5, attempt <= 6
DownloadAttempts == 5
QueryAttempts == 6
MaxAttempts(kind) == IF kind = "download" THEN DownloadAttempts ELSE QueryAttempts

\* Math.floor(Math.random() * 200): its least and its greatest value
JitterSpan == 200
Jitters == {0, JitterSpan - 1}

BackoffBase == 500
BackoffCap == 15000
RECURSIVE Pow2(_)
Pow2(n) == IF n = 0 THEN 1 ELSE 2 * Pow2(n - 1)

\* a delay that does not grow with the attempt
backoffFlat(attempt, jitter) == BackoffBase + jitter

\* Math.min(15000, 500 * Math.pow(2, attempt - 1)) + jitter
backoff(attempt, jitter) == Min(BackoffCap, BackoffBase * Pow2(attempt - 1)) + jitter

RetryInit ==
    /\ quotaLimit = HARD
    /\ quota = createQuota(HARD, 0)
    /\ tokens = << >>
    /\ ckptFile = NoFile
    /\ wrote = 0
    /\ hashIdx = << >>
    /\ files = EmptyFn
    /\ seen = EmptyFn
    /\ workers = {}
    /\ IdleMain
    /\ NoHistory
    /\ scenario = "general"
    /\ PoolIdle
    /\ rKind \in {"download", "discovery", "license"}
    /\ rAttempt = 1
    /\ rAns = << >>
    /\ rDelays = << >>
    /\ rLastStatus = 0
    /\ rLastError = ""
    /\ rState = "sending"
    /\ rCarried = << >>
    /\ LicenseIdle
    /\ SliceIdle
    /\ BatchIdle
    /\ OldIdle

RetryUnchanged ==
    UNCHANGED <<quotaVars, diskVars, seen, mainVars, workers, histVars, scenario, sliceVars,
                poolVars, rKind, licVars, batchVars, oldVars>>

\* what the error thrown after the loop carries: downloadValidated names
\* res.status; fetchWikidataBatchPaged names lastStatus, or else lastError;
\* fetchCommonsInfoChunk names neither
AfterLoopCarries(kind, a, lastStatus, lastError) ==
    IF kind = "download" THEN <<a>>
    ELSE IF kind = "discovery"
    THEN IF lastStatus # 0 THEN <<Resp(lastStatus)>>
         ELSE IF lastError # "" THEN <<Fail(lastError)>>
         ELSE << >>
    ELSE << >>

\* the end of an iteration that did not leave the loop: the backoff is waited
\* and the counter is advanced; past the bound of the loop, the throw after it
R_Wait(a, jitter, lastStatus, lastError) ==
    /\ rDelays' = Append(rDelays, backoff(rAttempt, jitter))
    /\ rAttempt' = rAttempt + 1
    /\ IF rAttempt + 1 <= MaxAttempts(rKind)
       THEN /\ rState' = "sending"
            /\ rCarried' = << >>
       ELSE /\ rState' = "failed"
            /\ rCarried' = AfterLoopCarries(rKind, a, lastStatus, lastError)

\* the request of this iteration is answered with a response that is ok: the
\* loop is left and the call goes on to succeed
R_Ok(a) ==
    /\ rState = "sending"
    /\ Ok(a)
    /\ rAns' = Append(rAns, a)
    /\ rLastStatus' = IF rKind = "discovery" THEN a.status ELSE rLastStatus
    /\ rState' = "ok"
    /\ UNCHANGED <<rAttempt, rDelays, rLastError, rCarried>>
    /\ RetryUnchanged

\* a response with a status that needsRetry accepts: nothing is thrown
R_Retryable(a, jitter) ==
    /\ rState = "sending"
    /\ a.err = "" /\ ~Ok(a) /\ needsRetry(a.status)
    /\ rAns' = Append(rAns, a)
    /\ LET ls == IF rKind = "discovery" THEN a.status ELSE rLastStatus
       IN  /\ rLastStatus' = ls
           /\ rLastError' = rLastError
           /\ R_Wait(a, jitter, ls, rLastError)
    /\ RetryUnchanged

\* a response with another status (an Error is thrown inside the try), or a
\* rejection of fetch: the catch rethrows on the last attempt and otherwise
\* lets the loop go on
R_Thrown(a, jitter) ==
    /\ rState = "sending"
    /\ ~Ok(a) /\ (a.err # "" \/ ~needsRetry(a.status))
    /\ rAns' = Append(rAns, a)
    /\ LET ls == IF rKind = "discovery" /\ a.err = "" THEN a.status ELSE rLastStatus
           le == IF rKind = "discovery"
                 THEN (IF a.err = "" THEN "HTTP" ELSE a.err) ELSE rLastError
       IN  /\ rLastStatus' = ls
           /\ rLastError' = le
           /\ IF rAttempt >= MaxAttempts(rKind)
              THEN /\ rState' = "failed"
                   /\ rCarried' = <<a>>
                   /\ UNCHANGED <<rAttempt, rDelays>>
              ELSE R_Wait(a, jitter, ls, le)
    /\ RetryUnchanged

RetryNext ==
    \/ \E a \in Answers : R_Ok(a)
    \/ \E a \in Answers, j \in Jitters : R_Retryable(a, j)
    \/ \E a \in Answers, j \in Jitters : R_Thrown(a, j)

RetrySpec == RetryInit /\ [][RetryNext]_vars

\* the delays waited grow from one attempt to the next, or have both reached the cap
DelaysGrow ==
    \A i \in 1..(Len(rDelays) - 1) :
        \/ rDelays[i] < rDelays[i + 1]
        \/ (rDelays[i] >= BackoffCap /\ rDelays[i + 1] >= BackoffCap)

ThreeBusyThenOk == <<Resp(503), Resp(503), Resp(503), Resp(200)>>

\* C18: a request answered 503 three times and then 200 succeeds with 4
\* requests sent and 3 delays waited, and has not ended before; the delays
\* waited between attempts are strictly increasing, or equal once at the cap.
C18_ThreeRetriesThenSuccess ==
    /\ DelaysGrow
    /\ rAns = ThreeBusyThenOk => (rState = "ok" /\ Len(rDelays) = 3)
    /\ \A n \in 0..3 : rAns = SubSeq(ThreeBusyThenOk, 1, n) =>
          (rState = "sending" /\ Len(rDelays) = n)

\* C18, its case: the request has succeeded on its fourth attempt, after a
\* first delay with the greatest jitter and a second with the least
C18_Witness ==
    /\ rAns = ThreeBusyThenOk
    /\ rState = "ok"
    /\ Len(rDelays) = 3
    /\ rDelays[1] = BackoffBase + JitterSpan - 1
    /\ rDelays[2] = 2 * BackoffBase

\* C19: a logical request sends at most its maximum number of requests; it
\* succeeds only on an answer that is ok; with the attempts exhausted and no
\* answer ok it has failed; and the error it fails with carries the last
\* answer, status or error.
C19_BoundedAttemptsLastErrorCarried ==
    /\ Len(rAns) <= MaxAttempts(rKind)
    /\ rState = "ok" => Ok(rAns[Len(rAns)])
    /\ (Len(rAns) = MaxAttempts(rKind) /\ \A i \in 1..Len(rAns) : ~Ok(rAns[i])) =>
          rState = "failed"
    /\ rState = "failed" => rCarried = <<rAns[Len(rAns)]>>

\* ------------------------------------------ the license classification alone
\* The classification fetchCommonsInfoChunk makes of the license string of one
\* title.  A string is the sequence of its characters.
LowerCase ==
    <<"a", "b", "c", "d", "e", "f", "g", "h", "i", "j", "k", "l", "m",
      "n", "o", "p", "q", "r", "s", "t", "u", "v", "w", "x", "y", "z">>
UpperCase ==
    <<"A", "B", "C", "D", "E", "F", "G", "H", "I", "J", "K", "L", "M",
      "N", "O", "P", "Q", "R", "S", "T", "U", "V", "W", "X", "Y", "Z">>
Digits == {"0", "1", "2", "3", "4", "5", "6", "7", "8", "9"}

\* short.toUpperCase()
toUpperCase(str) ==
    [i \in 1..Len(str) |->
        IF \E k \in 1..26 : LowerCase[k] = str[i]
        THEN UpperCase[CHOOSE k \in 1..26 : LowerCase[k] = str[i]]
        ELSE str[i]]

\* [^A-Z0-9]
NotUpperAlnum(ch) == ch \notin Range(UpperCase) \cup Digits
\* -
IsDash(ch) == ch = "-"

\* str.replace(/[^A-Z0-9]+/g, '-'): inRun tells that the character before
\* belongs to a run already replaced
RECURSIVE ReplaceNonAlnum(_, _)
ReplaceNonAlnum(str, inRun) ==
    IF str = << >> THEN << >>
    ELSE IF NotUpperAlnum(Head(str))
    THEN (IF inRun THEN << >> ELSE <<"-">>) \o ReplaceNonAlnum(Tail(str), TRUE)
    ELSE <<Head(str)>> \o ReplaceNonAlnum(Tail(str), FALSE)

\* str.replace(/-+/g, '-')
RECURSIVE CollapseDashes(_, _)
CollapseDashes(str, inRun) ==
    IF str = << >> THEN << >>
    ELSE IF IsDash(Head(str))
    THEN (IF inRun THEN << >> ELSE <<"-">>) \o CollapseDashes(Tail(str), TRUE)
    ELSE <<Head(str)>> \o CollapseDashes(Tail(str), FALSE)

\* licenseUp.replace(/[^A-Z0-9]+/g, '-').replace(/-+/g, '-')
Normalize(up) == CollapseDashes(ReplaceNonAlnum(up, FALSE), FALSE)

\* pat occurs in str at position i
MatchAt(str, i, pat) ==
    /\ i >= 1
    /\ i + Len(pat) - 1 <= Len(str)
    /\ SubSeq(str, i, i + Len(pat) - 1) = pat
\* /pat/.test(str), str.includes(pat)
Includes(str, pat) == \E i \in 1..(Len(str) + 1) : MatchAt(str, i, pat)

\* the patterns of the classification
P_PD == <<"P", "D">>
P_PUBLIC_DOMAIN == <<"P", "U", "B", "L", "I", "C", "-", "D", "O", "M", "A", "I", "N">>
P_CC0 == <<"C", "C", "0">>
P_CC_BY == <<"C", "C", "-", "B", "Y">>
P_SA == <<"-", "S", "A">>
P_ATTRIBUTION == <<"A", "T", "T", "R", "I", "B", "U", "T", "I", "O", "N">>
P_CC_BY_SA == <<"C", "C", "-", "B", "Y", "-", "S", "A">>
P_ATTRIBUTION_SHAREALIKE ==
    <<"A", "T", "T", "R", "I", "B", "U", "T", "I", "O", "N", "-", "S", "H", "A", "R",
      "E", "A", "L", "I", "K", "E">>
P_CC == <<"C", "C", "-">>
P_CREATIVE_COMMONS ==
    <<"C", "R", "E", "A", "T", "I", "V", "E", " ", "C", "O", "M", "M", "O", "N", "S">>

\* the license strings a title is reported with
L_PublicDomain == <<"P", "u", "b", "l", "i", "c", " ", "D", "o", "m", "a", "i", "n">>
L_CcBySa4 == <<"C", "C", " ", "B", "Y", "-", "S", "A", " ", "4", ".", "0">>
L_CcBy4 == <<"C", "C", " ", "B", "Y", " ", "4", ".", "0">>
L_Cc0 == <<"C", "C", "0">>
L_PdUs == <<"P", "D", "-", "U", "S">>
L_Attribution ==
    <<"C", "r", "e", "a", "t", "i", "v", "e", " ", "C", "o", "m", "m", "o", "n", "s",
      " ", "A", "t", "t", "r", "i", "b", "u", "t", "i", "o", "n", " ", "2", ".", "0">>
L_Copyrighted == <<"C", "o", "p", "y", "r", "i", "g", "h", "t", "e", "d">>
L_None == <<>>
LicenseStrings ==
    {L_PublicDomain, L_CcBySa4, L_CcBy4, L_Cc0, L_PdUs, L_Attribution, L_Copyrighted,
     L_None}

\* the tokens --licenses accepts
LicenseTokens == {"PD", "CC0", "CC-BY", "CC-BY-SA", "ANY-CC"}

\* /(^|-)PD(-|$)/.test(norm) || /PUBLIC-DOMAIN/.test(norm)
IsPd(norm) ==
    \/ \E i \in 1..Len(norm) :
          /\ MatchAt(norm, i, P_PD)
          /\ (i = 1 \/ norm[i - 1] = "-")
          /\ (i + 2 > Len(norm) \/ norm[i + 2] = "-")
    \/ Includes(norm, P_PUBLIC_DOMAIN)

\* /CC0/.test(norm)
IsCc0(norm) == Includes(norm, P_CC0)

\* an attribution test without the look-ahead
IsCcByAnySuffix(norm, up) == Includes(norm, P_CC_BY) \/ Includes(up, P_ATTRIBUTION)

\* /CC-BY(?!-SA)/.test(norm) || /ATTRIBUTION/.test(licenseUp)
IsCcBy(norm, up) ==
    \/ \E i \in 1..Len(norm) :
          MatchAt(norm, i, P_CC_BY) /\ ~MatchAt(norm, i + 5, P_SA)
    \/ Includes(up, P_ATTRIBUTION)

\* /CC-BY-SA/.test(norm) || /ATTRIBUTION-SHAREALIKE/.test(norm)
IsCcBySa(norm) == Includes(norm, P_CC_BY_SA) \/ Includes(norm, P_ATTRIBUTION_SHAREALIKE)

\* /^CC-/.test(norm) || licenseUp.includes('CREATIVE COMMONS')
IsAnyCc(norm, up) == MatchAt(norm, 1, P_CC) \/ Includes(up, P_CREATIVE_COMMONS)

\* the families the string matches and isOpen, as the five if statements set it
Classify(short, allowed) ==
    LET up == toUpperCase(short)
        norm == Normalize(up)
        pd == IsPd(norm)
        cc0 == IsCc0(norm)
        ccby == IsCcBy(norm, up)
        ccbysa == IsCcBySa(norm)
        anycc == IsAnyCc(norm, up)
        o1 == "PD" \in allowed /\ pd
        o2 == IF "CC0" \in allowed /\ cc0 THEN TRUE ELSE o1
        o3 == IF "CC-BY" \in allowed /\ ccby THEN TRUE ELSE o2
        o4 == IF "CC-BY-SA" \in allowed /\ ccbysa THEN TRUE ELSE o3
        o5 == IF "ANY-CC" \in allowed /\ anycc THEN TRUE ELSE o4
    IN  [norm |-> norm, pd |-> pd, cc0 |-> cc0, ccby |-> ccby, ccbysa |-> ccbysa,
         anycc |-> anycc, isOpen |-> o5]

LicenseInit ==
    /\ quotaLimit = HARD
    /\ quota = createQuota(HARD, 0)
    /\ tokens = << >>
    /\ ckptFile = NoFile
    /\ wrote = 0
    /\ hashIdx = << >>
    /\ files = EmptyFn
    /\ seen = EmptyFn
    /\ workers = {}
    /\ IdleMain
    /\ NoHistory
    /\ scenario = "general"
    /\ PoolIdle
    /\ RetryIdle
    /\ licShort \in LicenseStrings
    /\ LICENSES \in SUBSET LicenseTokens
    /\ licOut = << >>
    /\ BatchIdle
    /\ OldIdle
    /\ SliceIdle

\* the entry of one title is computed
L_Classify ==
    /\ licOut = << >>
    /\ licOut' = <<Classify(licShort, LICENSES)>>
    /\ UNCHANGED <<quotaVars, diskVars, seen, mainVars, workers, histVars, scenario, sliceVars,
                   poolVars, retryVars, licShort, LICENSES, batchVars,
                   oldVars>>

LicenseNext == L_Classify

LicenseSpec == LicenseInit /\ [][LicenseNext]_vars

\* the tokens of the families an entry matched
MatchedFamilies(o) ==
    {t \in LicenseTokens :
        \/ (t = "PD" /\ o.pd)
        \/ (t = "CC0" /\ o.cc0)
        \/ (t = "CC-BY" /\ o.ccby)
        \/ (t = "CC-BY-SA" /\ o.ccbysa)
        \/ (t = "ANY-CC" /\ o.anycc)}

\* C20: "Public Domain" is classified as public domain; "CC BY-SA 4.0" as
\* attribution-share-alike and not as attribution; isOpen is true exactly when
\* a family the string matches is in the allow-list, so "CC BY-SA 4.0" is
\* excluded with the allow-list {PD} and included with {ANY-CC}.
C20_LicenseClassification ==
    licOut # << >> =>
        LET o == licOut[1]
        IN  /\ licShort = L_PublicDomain => o.pd
            /\ licShort = L_CcBySa4 => (o.ccbysa /\ ~o.ccby)
            /\ o.isOpen <=> (MatchedFamilies(o) \cap LICENSES # {})
            /\ (licShort = L_CcBySa4 /\ LICENSES = {"PD"}) => ~o.isOpen
            /\ (licShort = L_CcBySa4 /\ LICENSES = {"ANY-CC"}) => o.isOpen

\* C20, its case: "CC BY-SA 4.0" has been classified with the allow-list
\* {ANY-CC} and is included
C20_Witness ==
    /\ licShort = L_CcBySa4
    /\ LICENSES = {"ANY-CC"}
    /\ licOut # << >>
    /\ licOut[1].ccbysa
    /\ licOut[1].isOpen

\* ------------------------------------------------------------ the pipeline
\* loadJSON(CHECKPOINT) || { sliceFrom: YEAR_FROM, sliceTo: ..., offset: 0, ... }
DefaultCk == Json(YEAR_FROM, Min(YEAR_FROM + 24, YEAR_TO), 0, 0, FALSE)
loadJSON(file) == IF file.kind = "json" THEN <<file>> ELSE << >>
LoadCk(file) == IF loadJSON(file) = << >> THEN DefaultCk ELSE loadJSON(file)[1]

\* a resume that always starts from the first slice
StartIndexFirst(c) == 1

\* slices.findIndex(([a, b]) => a === sliceFrom && b === sliceTo), 1-based, and
\* if (startIndex === -1) startIndex = 0
StartIndex(c) ==
    LET hits == {i \in 1..Len(slices) :
                    slices[i][1] = c.sliceFrom /\ slices[i][2] = c.sliceTo}
    IN  IF hits = {} THEN 1 ELSE CHOOSE i \in hits : \A j \in hits : i <= j

\* a start from the offset the call of main() that failed had reached
StartOffsetOfFailedCall(c) == IF lost # << >> THEN lost[2] ELSE c.offset

\* the offset main() starts paging from: the one destructured from ck
StartOffset(c) == c.offset

\* a loop over the slices that does not look at done
LoopCondIgnoresDone(i, dn, sv) == i <= Len(slices) /\ sv < HARD

\* a loop over the slices that ends after the first slice
LoopCondFirstSlice(i, dn, sv) == i <= 1 /\ ~dn /\ sv < HARD

\* the condition of the for loop over the slices
LoopCond(i, dn, sv) == i <= Len(slices) /\ ~dn /\ sv < HARD

\* a loader that returns before it has read the file
loadHashIndexStale(sn, lines) == sn

\* loadHashIndex(): every parseable line with sha256 and path is set in the Map
RECURSIVE loadHashIndex(_, _)
loadHashIndex(sn, lines) ==
    IF lines = << >> THEN sn
    ELSE LET r == Head(lines)
         IN  loadHashIndex((r.sha :> [path |-> r.path, bytes |-> r.bytes]) @@ sn,
                           Tail(lines))

TmpPath(t) == <<Base(t), ".part">>
FinalPath(t, c) ==
    LET kind == magicKind(HeadBytes(c))
    IN  <<Base(t), extFor(IF kind = "null" THEN "jpg" ELSE kind)>>

\* the while loop of runPool up to its await: items are shifted off the queue
\* and their worker is started while fewer than conc are running.  Starting a
\* worker runs it up to its first await: quota.take(), filePathUrl(title) (which
\* returned for this title when processBatch built the list), then the request
\* is sent.
RECURSIVE AdmitAll(_, _, _, _, _)
AdmitAll(queue, n, qt, run, idx) ==
    IF queue = << >> \/ n >= CONCURRENCY
    THEN [q |-> queue, new |-> {}, quota |-> qt]
    ELSE LET t == Head(queue)
             r == take(qt)
         IN  IF r.tok = << >>
             THEN AdmitAll(Tail(queue), n, r.quota, run, idx)
             ELSE LET w == [title |-> t, run |-> run,
                            pc |-> "fetch",
                            c |-> 0, bytes |-> 0, err |-> "", tok |-> r.tok[1],
                            idxAtCall |-> idx]
                      rest == AdmitAll(Tail(queue), n + 1, r.quota, run, idx)
                  IN  [q |-> rest.q, new |-> {w} \cup rest.new, quota |-> rest.quota]

\* the locals of a main() whose failure has reached startLoop
CrashMain ==
    /\ lost' = <<si, offset, saved>>
    /\ mpc' = "crashed"
    /\ ck' = NoFile
    /\ latestCk' = NoFile
    /\ si' = 0
    /\ offset' = 0
    /\ saved' = 0
    /\ done' = FALSE
    /\ q' = << >>
    /\ pageAttempt' = 0

\* the worker invocations of the pool main() is waiting for
Pool == IF mpc = "pool" THEN {w \in workers : w.run = runNo} ELSE {}

\* a pool that returns as soon as its queue is empty
PoolDoneQueueOnly(queue, inflight) == queue = << >>

\* runPool: the negation of its loop condition q.length > 0 || running.size > 0
PoolDone(queue, inflight) == queue = << >> /\ inflight = {}

\* runPool from the top of its outer loop, with cur in flight and the others
\* (invocations the pool does not wait for) left alone: admit, then wait; with
\* the queue empty and nothing in flight processBatch returns and main()
\* advances the offset.
PoolContinue(queue, cur, others) ==
    LET r == AdmitAll(queue, Cardinality(cur), quota, runNo, Len(hashIdx))
    IN  /\ workers' = others \cup cur \cup r.new
        /\ quota' = r.quota
        /\ pageAttempt' = 0
        /\ IF PoolDone(r.q, cur \cup r.new)
           THEN /\ mpc' = "savepage"
                /\ offset' = offset + pageSize
                /\ q' = << >>
                /\ processed' = processed \cup {<<si, offset>>}
                /\ UNCHANGED <<ck, latestCk, si, saved, done>>
           ELSE /\ mpc' = "pool"
                /\ q' = r.q
                /\ processed' = processed
                /\ UNCHANGED <<ck, latestCk, si, offset, saved, done>>

\* checkpoints an earlier run (of this or of another configuration) can have left
InitCheckpoints ==
    {NoFile} \cup
    {Json(p[1], p[2], o, 0, FALSE) :
        p \in {slices[i] : i \in 1..Len(slices)} \cup {<<YEAR_FROM - 1, YEAR_FROM - 1>>},
        o \in {0, pageSize, 2 * pageSize}}

Init ==
    /\ quotaLimit = HARD
    /\ quota = createQuota(HARD, 0)
    /\ tokens = << >>
    /\ ckptFile \in InitCheckpoints
    /\ wrote = 0
    /\ hashIdx = << >>
    /\ files = EmptyFn
    /\ seen = EmptyFn
    /\ workers = {}
    /\ IdleMain
    /\ NoHistory
    /\ scenario = "general"
    /\ PoolIdle
    /\ RetryIdle
    /\ LicenseIdle
    /\ SliceIdle
    /\ BatchIdle
    /\ OldIdle

\* main(): ensureDir, loadHashIndex
M_LoadHashIndex ==
    /\ mpc = "init"
    /\ seen' = loadHashIndex(seen, hashIdx)
    /\ idxAtLoad' = Len(hashIdx)
    /\ mpc' = "loadck"
    /\ UNCHANGED <<sideVars, pageAttempt, quotaVars, diskVars, ck, latestCk, si, offset, saved, done, q, workers,
                   runNo, fails, firstReq, lastReq, processed, abandoned, startPos,
                   lost>>

\* main(): load the checkpoint, create the quota, find the slice to resume at
M_LoadCheckpoint ==
    /\ mpc = "loadck"
    /\ LET c == LoadCk(ckptFile)
           i == StartIndex(c)
       IN  /\ ck' = c
           /\ offset' = StartOffset(c)
           /\ saved' = c.saved
           /\ done' = c.done
           /\ quota' = createQuota(HARD, c.saved)
           /\ si' = i
           /\ mpc' = IF LoopCond(i, c.done, c.saved) THEN "fetch" ELSE "final"
           /\ startPos' = IF startPos # << >> THEN startPos
                          ELSE IF c.done THEN <<Len(slices) + 1, 0>>
                          ELSE <<i, StartOffset(c)>>
    /\ firstReq' = << >>
    /\ lastReq' = << >>
    /\ UNCHANGED <<sideVars, pageAttempt, quotaLimit, tokens, diskVars, seen, latestCk, q, workers,
                   runNo, fails, idxAtLoad, processed, abandoned, lost>>

\* a catch that gives up the run on the last try
PageCatchRethrow(att) == IF att >= pageRetries THEN "throw" ELSE "retry"

\* main(): the catch of the page-level for loop.  On the last try
\* (attempt >= pageRetries) the warning "...; moving on" and the break, which
\* leaves pageOk false; before it the backoff and the next try.
PageCatch(att) == IF att >= pageRetries THEN "moving on" ELSE "retry"

\* main(): one call of the discovery fetch for a page.  Either the call fails
\* (and is tried again, or, on the last try, the slice is left: offset = 0, then
\* the slice checkpoint), or the page is empty (the slice is left in the same
\* way), or its titles go to processBatch, which, with the license filter
\* bypassed, builds the download URL of every title (a malformed title throws
\* there, and the failure leaves main()) and hands them all to runPool.
M_FetchPage ==
    /\ mpc = "fetch"
    /\ LET req == <<slices[si][1], slices[si][2], offset>>
       IN  /\ firstReq' = IF firstReq = << >> THEN req ELSE firstReq
           /\ lastReq' = req
    /\ \/ /\ scenario = "general"
          /\ fails < MaxPageFails
          /\ UNCHANGED <<quota, workers, processed>>
          /\ CASE PageCatch(pageAttempt) = "retry" ->
                    /\ pageAttempt' = pageAttempt + 1
                    /\ UNCHANGED <<fails, abandoned, mpc, offset, ck, latestCk, si, saved,
                                   done, q, lost>>
               [] PageCatch(pageAttempt) = "moving on" ->
                    /\ fails' = fails + 1
                    /\ abandoned' = abandoned \cup {si}
                    /\ mpc' = "saveslice"
                    /\ offset' = 0
                    /\ pageAttempt' = 0
                    /\ UNCHANGED <<ck, latestCk, si, saved, done, q, lost>>
               [] OTHER ->
                    /\ fails' = fails + 1
                    /\ abandoned' = abandoned
                    /\ CrashMain
       \/ \E rows \in SourcePages(si, offset) :
            /\ UNCHANGED <<fails, abandoned>>
            /\ IF rows = << >>
               THEN /\ mpc' = "saveslice"
                    /\ offset' = 0
                    /\ pageAttempt' = 0
                    /\ UNCHANGED <<quota, ck, latestCk, si, saved, done, q, workers,
                                   processed, lost>>
               ELSE IF \E k \in 1..Len(rows) : Malformed(rows[k])
               THEN /\ CrashMain
                    /\ UNCHANGED <<quota, workers, processed>>
               ELSE /\ PoolContinue(rows, {}, workers)
                    /\ lost' = lost
    /\ UNCHANGED <<sideVars, quotaLimit, tokens, diskVars, seen, runNo, idxAtLoad, startPos>>

\* a page checkpoint written one page ahead of the page processed
PageCheckpointAhead(i, off, sv) ==
    Json(slices[i][1], slices[i][2], off + pageSize, sv, FALSE)

\* a page checkpoint that keeps the saved count main() loaded
PageCheckpointLoadedCount(i, off, sv) ==
    Json(slices[i][1], slices[i][2], off, ck.saved, FALSE)

\* main(): the checkpoint after a page
PageCheckpoint(i, off, sv) == Json(slices[i][1], slices[i][2], off, sv, FALSE)

\* main(): after the pause WD_DELAY_MS the page checkpoint is written; a
\* saveJSON that rejects leaves main() with the file as it was when writeFile
\* failed before it opened the file, and with a file that does not parse when
\* it failed after it had truncated it
M_SavePage ==
    /\ mpc = "savepage"
    /\ \/ /\ ckptFile' = PageCheckpoint(si, offset, saved)
          /\ wrote' = saved
          /\ mpc' = "fetch"
          /\ UNCHANGED <<pageAttempt, ck, latestCk, si, offset, saved, done, q, lost>>
       \/ /\ scenario = "general"
          /\ ckptFile' \in {ckptFile, Corrupt}
          /\ wrote' = wrote
          /\ CrashMain
    /\ UNCHANGED <<sideVars, quotaVars, hashIdx, files, seen, workers, runNo, fails, idxAtLoad,
                   firstReq, lastReq, processed, abandoned, startPos>>

\* main(): the checkpoint of the next slice, then the next slice
\* a slice checkpoint that names the slice just left
SliceCheckpointCurrent(i, off, sv) == Json(slices[i][1], slices[i][2], off, sv, FALSE)

\* main(): the checkpoint written when a slice is left:
\* { sliceFrom: slices[si + 1]?.[0] ?? a, sliceTo: slices[si + 1]?.[1] ?? b, ... }
SliceCheckpoint(i, off, sv) ==
    LET nxt == IF i + 1 <= Len(slices) THEN slices[i + 1] ELSE slices[i]
    IN  Json(nxt[1], nxt[2], off, sv, FALSE)

M_SaveSlice ==
    /\ mpc = "saveslice"
    /\ ckptFile' = SliceCheckpoint(si, offset, saved)
    /\ wrote' = saved
    /\ si' = si + 1
    /\ mpc' = IF LoopCond(si + 1, done, saved) THEN "fetch" ELSE "final"
    /\ UNCHANGED <<sideVars, pageAttempt, quotaVars, hashIdx, files, seen, ck, latestCk, offset, saved, done,
                   q, workers, histVars>>

\* main(): the latest checkpoint on disk, or the locals
M_LoadLatest ==
    /\ mpc = "final"
    /\ latestCk' = IF loadJSON(ckptFile) = << >>
                   THEN Json(ck.sliceFrom, ck.sliceTo, offset, saved, FALSE)
                   ELSE loadJSON(ckptFile)[1]
    /\ mpc' = "finalsave"
    /\ UNCHANGED <<sideVars, pageAttempt, quotaVars, diskVars, seen, ck, si, offset, saved, done, q, workers,
                   histVars>>

\* a final checkpoint that does not set done
FinalCheckpointNotDone(latest, sv) == [latest EXCEPT !.saved = sv]

\* main(): { ...latestCk, saved, done: true }
FinalCheckpoint(latest, sv) == [latest EXCEPT !.saved = sv, !.done = TRUE]

M_FinalSave ==
    /\ mpc = "finalsave"
    /\ ckptFile' = FinalCheckpoint(latestCk, saved)
    /\ wrote' = saved
    /\ mpc' = "done"
    /\ UNCHANGED <<sideVars, pageAttempt, quotaVars, hashIdx, files, seen, ck, latestCk, si, offset, saved, done,
                   q, workers, histVars>>

\* ------------------------------------------------- the per-candidate worker
\* the invocation w of the worker replaced by w2
Becomes(w, w2) == workers' = (workers \ {w}) \cup {w2}

\* catch (e) { ...; token.release() } and the polite delay; err is the error
\* caught when downloadValidated has not recorded it already
Caught(w, err) ==
    [w EXCEPT !.tok = release(quota, w.tok).tok, !.pc = "sleep",
              !.err = IF @ = "" THEN err ELSE @]

\* what the worker does with a duplicate: } else if (DEBUG) { ...; token.release() }
OnDuplicate(w) ==
    IF DEBUG THEN [w EXCEPT !.tok = release(quota, w.tok).tok, !.pc = "sleep"]
    ELSE [w EXCEPT !.pc = "sleep"]

\* what the worker does with a new save: counter.inc(); token.commit()
OnSaved(w) == [w EXCEPT !.tok = commit(quota, w.tok).tok, !.pc = "sleep"]

\* a file: the body it receives, whether all of it is written, and the title
\* of the download whose write stream opened it last
File(c, whole, by) == [c |-> c, whole |-> whole, by |-> by]

\* downloadValidated: the request, up to the start of the pipeline into
\* destBase + '.part': createWriteStream opens the file and truncates it.  A
\* transport failure is caught by the worker.
W_Fetch(w) ==
    /\ w.pc = "fetch"
    /\ \/ /\ scenario = "general"
          /\ Becomes(w, Caught(w, "HTTP"))
          /\ files' = files
       \/ \E c \in Served(w.title) :
            /\ files' = (TmpPath(w.title) :> File(c, FALSE, w.title)) @@ files
            /\ Becomes(w, [w EXCEPT !.c = c, !.pc = "write"])
    /\ UNCHANGED <<sideVars, quotaVars, ckptFile, wrote, hashIdx, seen, mainVars, histVars>>

\* downloadValidated: the pipeline ends, the whole body has gone through the
\* write stream of w into the file that stream opened, under whatever name that
\* file has by now; a file that another stream opened since is left as it is
W_Write(w) ==
    /\ w.pc = "write"
    /\ files' = [p \in DOMAIN files |->
                    IF files[p].by = w.title /\ files[p].c = w.c
                    THEN [files[p] EXCEPT !.whole = TRUE] ELSE files[p]]
    /\ Becomes(w, [w EXCEPT !.pc = "stat"])
    /\ UNCHANGED <<sideVars, quotaVars, ckptFile, wrote, hashIdx, seen, mainVars, histVars>>

\* st.size: the length of a whole file, or of what is written so far
StatSizes(f) == IF f.whole THEN {Size(f.c)} ELSE {0, Size(f.c) - 1}

\* a validation that checks the image before the size
ValidateImageFirst(w, bytes) ==
    IF ~looksImage(ContentType(w.c)) /\ magicKind(HeadBytes(w.c)) = "null"
    THEN [pc |-> "unlinkBad", err |-> "Non-image"]
    ELSE IF bytes < 1024 THEN [pc |-> "unlinkBad", err |-> "Too small"]
    ELSE IF Sha256(w.c) \in DOMAIN seen THEN [pc |-> "unlinkDup", err |-> ""]
    ELSE [pc |-> "rename", err |-> ""]

\* a validation that accepts a recognised signature only
ValidateSignatureOnly(w, bytes) ==
    IF bytes < 1024 THEN [pc |-> "unlinkBad", err |-> "Too small"]
    ELSE IF magicKind(HeadBytes(w.c)) = "null"
    THEN [pc |-> "unlinkBad", err |-> "Non-image"]
    ELSE IF Sha256(w.c) \in DOMAIN seen THEN [pc |-> "unlinkDup", err |-> ""]
    ELSE [pc |-> "rename", err |-> ""]

\* downloadValidated after stat(tmp): the size check, the image check, the
\* look-up of the digest in seen; where it goes on and the error it will throw
Validate(w, bytes) ==
    IF bytes < 1024 THEN [pc |-> "unlinkBad", err |-> "Too small"]
    ELSE IF ~looksImage(ContentType(w.c)) /\ magicKind(HeadBytes(w.c)) = "null"
    THEN [pc |-> "unlinkBad", err |-> "Non-image"]
    ELSE IF Sha256(w.c) \in DOMAIN seen THEN [pc |-> "unlinkDup", err |-> ""]
    ELSE [pc |-> "rename", err |-> ""]

W_Validate(w) ==
    /\ w.pc = "stat"
    /\ IF TmpPath(w.title) \notin DOMAIN files
       THEN Becomes(w, Caught(w, "ENOENT"))
       ELSE \E bytes \in StatSizes(files[TmpPath(w.title)]) :
                LET v == Validate(w, bytes)
                IN  Becomes(w, [w EXCEPT !.bytes = bytes, !.pc = v.pc, !.err = v.err])
    /\ UNCHANGED <<sideVars, quotaVars, diskVars, seen, mainVars, histVars>>

\* downloadValidated: unlink(tmp), then the throw (caught by the worker) or the
\* duplicate result
W_Unlink(w) ==
    /\ w.pc \in {"unlinkBad", "unlinkDup"}
    /\ files' = Without(files, TmpPath(w.title))
    /\ IF w.pc = "unlinkDup" /\ TmpPath(w.title) \in DOMAIN files
       THEN Becomes(w, OnDuplicate(w))
       ELSE Becomes(w, Caught(w, "ENOENT"))
    /\ UNCHANGED <<sideVars, quotaVars, ckptFile, wrote, hashIdx, seen, mainVars, histVars>>

\* downloadValidated: rename(tmp, final)
W_Rename(w) ==
    /\ w.pc = "rename"
    /\ IF TmpPath(w.title) \notin DOMAIN files
       THEN /\ Becomes(w, Caught(w, "ENOENT"))
            /\ files' = files
       ELSE /\ files' = (FinalPath(w.title, w.c) :> files[TmpPath(w.title)])
                          @@ Without(files, TmpPath(w.title))
            /\ Becomes(w, [w EXCEPT !.pc = "append"])
    /\ UNCHANGED <<sideVars, quotaVars, ckptFile, wrote, hashIdx, seen, mainVars, histVars>>

\* the line downloadValidated appends to the hash index; kept with it, for the
\* history only: the invocation of main that started the worker, its title, and
\* whether the file at the path is, at this moment, the whole body the digest
\* was computed from
IndexLine(w) ==
    LET path == FinalPath(w.title, w.c)
    IN  [sha |-> Sha256(w.c), path |-> path, bytes |-> w.bytes,
         run |-> w.run, by |-> w.title,
         whole |-> /\ path \in DOMAIN files
                   /\ files[path].whole
                   /\ files[path].c = w.c]

\* a write that replaces the file by the line
WriteFileTruncate(lines, line) == <<line>>

\* writeFile(HASHIDX, line, { flag: 'a' }): the line is added at the end
WriteFileAppend(lines, line) == Append(lines, line)

\* what a successful save leaves in the Map seen
Remember(sn, w) == sn

\* a counter whose inc() also stores the new count in the checkpoint file
CounterIncPersists(file, sv) == IF file.kind = "json" THEN [file EXCEPT !.saved = sv] ELSE file

\* counter.inc(): saved += 1 on the local of main(); the checkpoint file is
\* left to main()
CounterInc(file, sv) == file

\* downloadValidated: the append to the hash index, its return, and the
\* worker's counter.inc() and token.commit()
W_Append(w) ==
    /\ w.pc = "append"
    /\ ckptFile' = CounterInc(ckptFile, saved + 1)
    /\ wrote' = wrote
    /\ hashIdx' = WriteFileAppend(hashIdx, IndexLine(w))
    /\ seen' = Remember(seen, w)
    /\ saved' = IF w \in Pool THEN saved + 1 ELSE saved
    /\ Becomes(w, OnSaved(w))
    /\ UNCHANGED <<sideVars, pageAttempt, quotaVars, files, mpc, ck, latestCk, si, offset, done, q,
                   histVars>>

\* the polite delay is over: the worker returns, runPool deletes its promise
\* and goes round its loop
W_Finish(w) ==
    /\ w.pc = "sleep"
    /\ IF w \in Pool
       THEN PoolContinue(q, Pool \ {w}, workers \ Pool)
       ELSE /\ workers' = workers \ {w}
            /\ UNCHANGED <<quota, mainVars, processed>>
    /\ UNCHANGED <<sideVars, quotaLimit, tokens, diskVars, seen, runNo, fails, idxAtLoad,
                   firstReq, lastReq, abandoned, startPos, lost>>

\* ---------------------------------------------------- supervisor, processes
\* startLoop(): the failure of main() is caught and, after the restart delay,
\* main() is called again in the same process
S_Restart ==
    /\ mpc = "crashed"
    /\ runNo < MaxRuns
    /\ mpc' = "init"
    /\ runNo' = runNo + 1
    /\ UNCHANGED <<sideVars, pageAttempt, quotaVars, diskVars, seen, ck, latestCk, si, offset, saved, done, q,
                   workers, fails, idxAtLoad, firstReq, lastReq, processed, abandoned,
                   startPos, lost>>

\* The process ends at any point (killed, or finished) and the program is
\* started again: nothing in memory survives; a checkpoint write that was under
\* way may leave an unparseable file.
Relaunch ==
    /\ runNo < MaxRuns
    /\ runNo' = runNo + 1
    /\ ckptFile' \in IF mpc \in {"savepage", "saveslice", "finalsave"}
                     THEN {ckptFile, Corrupt} ELSE {ckptFile}
    /\ wrote' = wrote
    /\ seen' = EmptyFn
    /\ workers' = {}
    /\ mpc' = "init"
    /\ ck' = NoFile
    /\ latestCk' = NoFile
    /\ si' = 0
    /\ offset' = 0
    /\ saved' = 0
    /\ done' = FALSE
    /\ q' = << >>
    /\ pageAttempt' = 0
    /\ lost' = << >>
    /\ UNCHANGED <<sideVars, quotaVars, hashIdx, files, fails, idxAtLoad, firstReq, lastReq,
                   processed, abandoned, startPos>>

Next ==
    \/ M_LoadHashIndex
    \/ M_LoadCheckpoint
    \/ M_FetchPage
    \/ M_SavePage
    \/ M_SaveSlice
    \/ M_LoadLatest
    \/ M_FinalSave
    \/ \E w \in workers : W_Fetch(w)
    \/ \E w \in workers : W_Write(w)
    \/ \E w \in workers : W_Validate(w)
    \/ \E w \in workers : W_Unlink(w)
    \/ \E w \in workers : W_Rename(w)
    \/ \E w \in workers : W_Append(w)
    \/ \E w \in workers : W_Finish(w)
    \/ S_Restart
    \/ Relaunch

Spec == Init /\ [][Next]_vars

\* ------------------------------------------------- the end-to-end scenario
\* A first run (no checkpoint, no hash index) over the two 1-year partitions,
\* with a discovery source that returns two identifiers for the first page of
\* each partition and then an empty page, and downloads that all succeed with
\* distinct content; the process is not interrupted.
E2EInit ==
    /\ quotaLimit = HARD
    /\ quota = createQuota(HARD, 0)
    /\ tokens = << >>
    /\ ckptFile = NoFile
    /\ wrote = 0
    /\ hashIdx = << >>
    /\ files = EmptyFn
    /\ seen = EmptyFn
    /\ workers = {}
    /\ IdleMain
    /\ NoHistory
    /\ scenario = "e2e"
    /\ PoolIdle
    /\ RetryIdle
    /\ LicenseIdle
    /\ SliceIdle
    /\ BatchIdle
    /\ OldIdle

E2ENext ==
    \/ M_LoadHashIndex
    \/ M_LoadCheckpoint
    \/ M_FetchPage
    \/ M_SavePage
    \/ M_SaveSlice
    \/ M_LoadLatest
    \/ M_FinalSave
    \/ \E w \in workers : W_Fetch(w)
    \/ \E w \in workers : W_Write(w)
    \/ \E w \in workers : W_Validate(w)
    \/ \E w \in workers : W_Rename(w)
    \/ \E w \in workers : W_Append(w)
    \/ \E w \in workers : W_Finish(w)

\* every step of the run that can be taken is eventually taken
E2ESpec == E2EInit /\ [][E2ENext]_vars /\ WF_vars(E2ENext)

\* ------------------------------------------------------------ the claims
\* C3: for every quota token the per-candidate worker acquires, exactly one of
\* commit() and release() has been called when the invocation finishes,
\* on every exit path, with the command line that asks for debug logging off.
C3_TokenSettledOnEveryExit ==
    \A w \in workers :
        w.pc = "sleep" => w.tok.nCommit + w.tok.nRelease = 1

\* C3, its case: a worker whose download was a duplicate has released its token
C3_Witness ==
    \E w \in workers :
        /\ w.pc = "sleep"
        /\ w.c # 0
        /\ Sha256(w.c) \in DOMAIN seen
        /\ w.tok.nRelease = 1
        /\ w.tok.nCommit = 0

\* the downloads in flight in the whole pipeline are at most CONCURRENCY
PipelineInFlightAtMostConcurrency == Cardinality(workers) <= CONCURRENCY

\* C4: within one run, a download called after a download of the same bytes
\* has completed reports a duplicate: it never goes on to rename its file and
\* append a record.
C4_SecondDownloadIsDuplicate ==
    \A w \in workers :
        w.pc \in {"rename", "append"} =>
            ~\E k \in 1..w.idxAtCall :
                hashIdx[k].run = w.run /\ hashIdx[k].sha = Sha256(w.c)

\* C5: no two records of the hash index file share a content digest.
C5_DigestsUnique ==
    \A i, j \in 1..Len(hashIdx) : i # j => hashIdx[i].sha # hashIdx[j].sha

\* the digests the hash index file held when the current invocation loaded it
LoadedDigests == {hashIdx[k].sha : k \in 1..idxAtLoad}

CkLoaded == mpc \in {"fetch", "pool", "savepage", "saveslice", "final", "finalsave", "done"}
\* the loaded checkpoint names one of the configured partitions
CkMatches == \E i \in 1..Len(slices) : slices[i] = <<ck.sliceFrom, ck.sliceTo>>

\* C7: when the checkpoint loaded is not complete and names a configured
\* partition [s, e], the first discovery page requested is partition [s, e] at
\* the checkpoint's offset, and one is requested.
C7_ResumeAtCheckpoint ==
    (CkLoaded /\ CkMatches /\ ~ck.done) =>
        IF firstReq = << >> THEN mpc = "fetch"
        ELSE firstReq = <<ck.sliceFrom, ck.sliceTo, ck.offset>>

\* C7, its case: a restarted run has requested its first page from a checkpoint
\* with a non-zero offset
C7_Witness ==
    /\ runNo > 1
    /\ CkLoaded /\ CkMatches /\ ~ck.done
    /\ ck.offset > 0
    /\ firstReq = <<ck.sliceFrom, ck.sliceTo, ck.offset>>

\* C8: when the checkpoint loaded names no configured partition, the first
\* discovery page requested is the first partition at offset 0, whatever
\* offset the checkpoint holds.
C8_UnmatchedRestartsAtZero ==
    (CkLoaded /\ ~CkMatches /\ firstReq # << >>) =>
        firstReq = <<slices[1][1], slices[1][2], 0>>

\* positions (partition index, offset) in the order the run visits them
Before(p, r) == p[1] < r[1] \/ (p[1] = r[1] /\ p[2] < r[2])
\* the position an invocation of main() starts from with this checkpoint file
ResumePos(file) ==
    LET c == LoadCk(file)
    IN  IF c.done THEN <<Len(slices) + 1, 0>> ELSE <<StartIndex(c), StartOffset(c)>>
\* the pages of the candidate space that can hold candidates
NonEmptyPages ==
    {p \in (1..Len(slices)) \X {0, pageSize, 2 * pageSize} :
        SourcePages(p[1], p[2]) # { << >> }}
\* the pages a restart from the checkpoint on disk does not fetch, among those
\* at or after the position the first run started from
PassedPages ==
    IF startPos = << >> THEN {}
    ELSE {p \in NonEmptyPages : ~Before(p, startPos) /\ Before(p, ResumePos(ckptFile))}

\* C9 as claimed: at every point, every page a restart from the checkpoint on
\* disk would not fetch again has had all its candidates run through the pool.
C9_NoUnprocessedPageSkipped == PassedPages \subseteq processed

\* C9 as amended: every such page has been run through the pool or belongs to
\* a partition the run abandoned after a page-level discovery failure.
C9_NoPageSkippedButAbandoned ==
    \A p \in PassedPages : p \in processed \/ p[1] \in abandoned

\* C9, its case: after a restart the run is about to fetch from a checkpoint
\* that lies past a page processed before the restart
C9_Witness ==
    /\ runNo > 1
    /\ mpc = "fetch"
    /\ firstReq = << >>
    /\ <<si, offset>> = ResumePos(ckptFile)
    /\ \E p \in PassedPages : p \in processed

\* the offsets the run last reached: that of its last discovery request, and
\* that of the page before it when that page was processed
ReachedOffsets ==
    {lastReq[3]} \cup
    {o \in {lastReq[3] - pageSize} :
        \E i \in 1..Len(slices) :
            slices[i] = <<lastReq[1], lastReq[2]>> /\ <<i, o>> \in processed}

\* C10: when a run that requested pages completes, the checkpoint on disk is
\* complete, names the partition the run last reached and holds the offset it
\* last reached there.
C10_CompletedKeepsOffsetReached ==
    (mpc = "done" /\ lastReq # << >>) =>
        /\ ckptFile.kind = "json"
        /\ ckptFile.done
        /\ <<ckptFile.sliceFrom, ckptFile.sliceTo>> = <<lastReq[1], lastReq[2]>>
        /\ ckptFile.offset \in ReachedOffsets

\* C11: in the end-to-end scenario the run terminates with four images saved
\* and a checkpoint on disk that is marked done.
C11_EndToEndSavesFour ==
    <>(/\ mpc = "done"
       /\ saved = 4
       /\ ckptFile.kind = "json"
       /\ ckptFile.done
       /\ ckptFile.saved = 4)

\* C11, its case: the run has ended with four records in the hash index and
\* four files in the output directory
C11_Witness ==
    /\ scenario = "e2e"
    /\ mpc = "done"
    /\ saved = 4
    /\ Len(hashIdx) = 4
    /\ Cardinality(DOMAIN files) = 4

\* the hash index holds no record appended by the download w
NoRecordOf(w) ==
    \A k \in 1..Len(hashIdx) : ~(hashIdx[k].by = w.title /\ hashIdx[k].run = w.run)

\* what follows the rejection of the download of w: nothing is committed,
\* nothing is renamed or appended and, once the worker is past
\* downloadValidated, the temporary file is gone and the token is released
Rejected(w) ==
    /\ w.pc \in {"unlinkBad", "sleep"}
    /\ w.tok.nCommit = 0
    /\ NoRecordOf(w)
    /\ w.pc = "sleep" => (TmpPath(w.title) \notin DOMAIN files /\ w.tok.nRelease = 1)

\* the download w has had the size of its temporary file reported by stat
Measured(w) == w.pc \notin {"fetch", "write", "stat"} /\ w.err \notin {"HTTP", "ENOENT"}

\* C15: a download of which fewer than 1024 bytes are found written is rejected
\* as too small whatever its content type and its leading bytes; its temporary
\* file is removed, no record is appended and nothing is counted as saved.
C15_UndersizedIsTooSmall ==
    \A w \in workers :
        (Measured(w) /\ w.bytes < 1024) => (w.err = "Too small" /\ Rejected(w))

\* C15, its case: a 500-byte body with a JPEG signature and an image content
\* type has been rejected and its temporary file removed
C15_Witness ==
    \E w \in workers :
        /\ w.c = 3
        /\ w.pc = "sleep"
        /\ w.err = "Too small"
        /\ TmpPath(w.title) \notin DOMAIN files

\* C16: a download of at least 1024 bytes is rejected as not an image exactly
\* when no signature is recognised in its leading bytes and its content type
\* is not image-like; then its temporary file is removed and no record is
\* appended.
C16_NotAnImageIffNoSignatureNoType ==
    \A w \in workers :
        (Measured(w) /\ w.bytes >= 1024) =>
            /\ w.err = "Non-image" <=>
                  (magicKind(HeadBytes(w.c)) = "null" /\ ~looksImage(ContentType(w.c)))
            /\ w.err = "Non-image" => Rejected(w)

\* C16, its case: an HTML page served as text/html has been rejected, its
\* temporary file removed
C16_Witness ==
    \E w \in workers :
        /\ w.c = 4
        /\ ContentType(w.c) = "text/html"
        /\ magicKind(HeadBytes(w.c)) = "null"
        /\ w.pc = "sleep"
        /\ w.err = "Non-image"
        /\ TmpPath(w.title) \notin DOMAIN files

\* C17: no file under a final name is partly written, and every record of the
\* hash index was appended when the file at its path was the whole body the
\* digest was computed from.
C17_NoPartialFileUnderFinalName ==
    /\ \A p \in DOMAIN files : p[2] # ".part" => files[p].whole
    /\ \A k \in 1..Len(hashIdx) : hashIdx[k].whole

\* ------------------------------------------- processBatch taken alone
\* longest list of titles processBatch is called with
MaxBatch == 2

\* command lines the process can be started with: no option at all, the
\* bypass option alone, the bypass option with the value false, another option
CommandLines ==
    { << >>,
      << [opt |-> TRUE, s |-> "noLicenseFilter"] >>,
      << [opt |-> TRUE, s |-> "noLicenseFilter"], [opt |-> FALSE, s |-> "false"] >>,
      << [opt |-> TRUE, s |-> "debug"] >> }

\* the titles of a page: main() calls processBatch when titles.length > 0
BatchTitles == {1, 3, 5}
TitleLists ==
    UNION {[1..n -> BatchTitles] : n \in 1..MaxBatch}

\* what the Map of fetchCommonsInfo holds for a title: no entry, an entry with
\* isOpen false, an entry with isOpen true
InfoEntries == {"none", "closed", "open"}

\* the loop of processBatch over titles: the list todo
RECURSIVE Todo(_, _, _)
Todo(argv, titles, info) ==
    IF titles = << >> THEN << >>
    ELSE LET t == Head(titles)
             rest == Todo(argv, Tail(titles), info)
         IN  IF NoLicenseFilter(argv)
             THEN << [title |-> t, licenseShort |-> "UNKNOWN", resolved |-> FALSE,
                      isOpen |-> FALSE] >> \o rest
             ELSE IF info[t] # "open" THEN rest
             ELSE << [title |-> t, licenseShort |-> "resolved", resolved |-> TRUE,
                      isOpen |-> TRUE] >> \o rest

BatchInit ==
    /\ quotaLimit = HARD
    /\ quota = createQuota(HARD, 0)
    /\ tokens = << >>
    /\ ckptFile = NoFile
    /\ wrote = 0
    /\ hashIdx = << >>
    /\ files = EmptyFn
    /\ seen = EmptyFn
    /\ workers = {}
    /\ IdleMain
    /\ NoHistory
    /\ scenario = "general"
    /\ PoolIdle
    /\ RetryIdle
    /\ LicenseIdle
    /\ SliceIdle
    /\ OldIdle
    /\ bArgv \in CommandLines
    /\ bTitles \in TitleLists
    /\ bInfo \in [BatchTitles -> InfoEntries]
    /\ bTodo = << >>
    /\ bState = "called"

\* processBatch(titles, counter, HARD, quota) up to runPool: with the filter on,
\* the license lookup (which throws when its third try fails); then the list
\* todo, built with filePathUrl(title) when the filter is bypassed (a malformed
\* title throws); then the list is handed to runPool
B_Build ==
    /\ bState = "called"
    /\ \/ /\ ~NoLicenseFilter(bArgv)
          /\ bState' = "thrown"
          /\ bTodo' = bTodo
       \/ /\ NoLicenseFilter(bArgv)
          /\ \E k \in 1..Len(bTitles) : Malformed(bTitles[k])
          /\ bState' = "thrown"
          /\ bTodo' = bTodo
       \/ /\ NoLicenseFilter(bArgv) => \A k \in 1..Len(bTitles) : ~Malformed(bTitles[k])
          /\ bTodo' = Todo(bArgv, bTitles, bInfo)
          /\ bState' = "pooled"
    /\ UNCHANGED <<quotaVars, diskVars, seen, mainVars, workers, histVars, scenario, sliceVars,
                   poolVars, retryVars, licVars, oldVars, bArgv, bTitles, bInfo>>

BatchNext == B_Build

BatchSpec == BatchInit /\ [][BatchNext]_vars

\* the command line holds the option --noLicenseFilter
BypassRequested(argv) == \E i \in 1..Len(argv) : argv[i].opt /\ argv[i].s = "noLicenseFilter"

\* C21: in a run started without the bypass option, every candidate handed to
\* the worker pool has been resolved by the license lookup and is allowed; no
\* candidate goes to the pool without a license verdict.
C21_BypassOnlyWhenRequested ==
    (bState = "pooled" /\ ~BypassRequested(bArgv)) =>
        \A k \in 1..Len(bTodo) : bTodo[k].resolved /\ bTodo[k].isOpen

C23_RestartReloadsFromDisk ==
    [][ /\ (mpc = "crashed" /\ mpc' # "crashed") =>
            /\ mpc' = "init"
            /\ runNo' = runNo + 1
            /\ UNCHANGED diskVars
        /\ (mpc = "init" /\ mpc' # "init") =>
            /\ mpc' = "loadck"
            /\ seen' = loadHashIndex(seen, hashIdx)
        /\ (mpc = "loadck" /\ mpc' # "loadck" /\ runNo' = runNo) =>
            /\ si' = StartIndex(LoadCk(ckptFile))
            /\ offset' = LoadCk(ckptFile).offset
            /\ saved' = LoadCk(ckptFile).saved
      ]_vars

\* C23, its case: a call of main() failed with an offset that the checkpoint on
\* disk does not hold; the call startLoop made after it has loaded the hash
\* index and the checkpoint and is about to send its first discovery request
\* from the offset on disk
C23_Witness ==
    /\ lost # << >>
    /\ runNo = 2
    /\ mpc = "fetch"
    /\ firstReq = << >>
    /\ hashIdx # << >>
    /\ \A k \in 1..Len(hashIdx) : hashIdx[k].sha \in DOMAIN seen
    /\ ckptFile.kind = "json"
    /\ offset = ckptFile.offset
    /\ offset # lost[2]

\* the path is a final name of the output directory, not a temporary one
IsFinalName(path) == path[2] # ".part"

\* C24: a file that exists under its final name is never replaced by a later
\* save of the same run, nor removed: whatever step the first call of main()
\* and its workers take, the file under that name holds the bytes it held.
C24_SavedFileNeverReplaced ==
    [][ \A path \in DOMAIN files :
            (IsFinalName(path) /\ runNo' = 1) =>
                /\ path \in DOMAIN files'
                /\ files'[path].c = files[path].c
      ]_vars

\* seq1 is a prefix of seq2
IsPrefix(seq1, seq2) ==
    /\ Len(seq1) <= Len(seq2)
    /\ SubSeq(seq2, 1, Len(seq1)) = seq1

\* C25: the hash index file is append-only: whatever step is taken (a worker, a
\* failure of main(), a restart, a new process), the records the file held are
\* the first records of the file afterwards, unchanged and in the same order.
C25_HashIndexAppendOnly == [][IsPrefix(hashIdx, hashIdx')]_vars

\* C25, its case: the file holds a record appended by the first call of main()
\* and, after it, a record appended by a later call
C25_Witness ==
    /\ Len(hashIdx) >= 2
    /\ hashIdx[1].run = 1
    /\ hashIdx[Len(hashIdx)].run = 2

\* ------------------- the first version of the downloader taken alone
\* src/commons-downloader.js: main() without page-level tries or supervisor,
\* a processBatch that is given the function () => saved++ as incSaved and
\* keeps its count in the property incSaved.count, and no quota.
\* largest --limit, largest --concurrency, most partitions, most pages of a
\* partition, most allowed candidates on a page
MaxOldLimit == 2
MaxOldConc == 2
MaxOldSlices == 2
MaxOldPages == 2
MaxOldRows == 2

\* const HARD = LIMIT > 0 ? LIMIT : Infinity
OldHARD(limit) == IF limit > 0 THEN limit ELSE Infinity

\* what the source holds: for each partition, the numbers of allowed candidates
\* of its pages (after the last page of a partition the source returns no row)
OldPages == UNION {[1..n -> 1..MaxOldRows] : n \in 0..MaxOldPages}
OldPlans == UNION {[1..n -> OldPages] : n \in 1..MaxOldSlices}

OldInit ==
    /\ quotaLimit = HARD
    /\ quota = createQuota(HARD, 0)
    /\ tokens = << >>
    /\ ckptFile = NoFile
    /\ wrote = 0
    /\ hashIdx = << >>
    /\ files = EmptyFn
    /\ seen = EmptyFn
    /\ workers = {}
    /\ IdleMain
    /\ NoHistory
    /\ scenario = "general"
    /\ PoolIdle
    /\ RetryIdle
    /\ LicenseIdle
    /\ SliceIdle
    /\ BatchIdle
    /\ oLimit \in 1..MaxOldLimit
    /\ oConc \in 1..MaxOldConc
    /\ oPlan \in OldPlans
    /\ oPc = "fetch"
    /\ oSaved = 0
    /\ oCount = 0
    /\ oQueue = 0
    /\ oRunning = 0
    /\ oFiles = 0
    /\ oCkSaved = 0
    /\ oCkFiles = 0

OldUnchanged ==
    UNCHANGED <<quotaVars, diskVars, seen, mainVars, workers, histVars, scenario, sliceVars,
                poolVars, retryVars, licVars, batchVars, oLimit, oConc>>

\* runPool from the top of its outer loop, with n invocations of the worker in
\* flight: a worker that is started returns at once when
\* LIMIT > 0 && incSaved.count >= HARD, so that the queue drains without a
\* download, and otherwise sends its request; with the queue empty and nothing
\* in flight processBatch returns, and main() goes on to the page checkpoint
OldPoolContinue(queue, n, count) ==
    LET skip == oLimit > 0 /\ count >= OldHARD(oLimit)
        k == IF skip THEN 0 ELSE Min(queue, oConc - n)
        rest == IF skip THEN 0 ELSE queue - k
    IN  /\ oQueue' = rest
        /\ oRunning' = n + k
        /\ IF rest = 0 /\ n + k = 0
           THEN /\ oPc' = "savepage"
                /\ oPlan' = <<Tail(Head(oPlan))>> \o Tail(oPlan)
           ELSE /\ oPc' = "pool"
                /\ oPlan' = oPlan

\* main(): one discovery page.  The request fails (the slice is left), or the
\* page is empty (the same), or the license lookup of processBatch fails (the
\* failure leaves main() and the process exits), or the allowed candidates go
\* to runPool with a new function incSaved, whose count is undefined
O_FetchPage ==
    /\ oPc = "fetch"
    /\ \/ /\ oPc' = "saveslice"
          /\ UNCHANGED <<oPlan, oCount, oQueue, oRunning>>
       \/ /\ Head(oPlan) = << >>
          /\ oPc' = "saveslice"
          /\ UNCHANGED <<oPlan, oCount, oQueue, oRunning>>
       \/ /\ Head(oPlan) # << >>
          /\ oPc' = "exit"
          /\ UNCHANGED <<oPlan, oCount, oQueue, oRunning>>
       \/ /\ Head(oPlan) # << >>
          /\ oCount' = 0
          /\ OldPoolContinue(Head(Head(oPlan)), 0, 0)
    /\ UNCHANGED <<oSaved, oFiles, oCkSaved, oCkFiles>>
    /\ OldUnchanged

\* the worker after downloadValidated: a new file or a duplicate (the metadata
\* line is appended and incSaved.count is incremented for both), or an error
\* that is caught; then runPool goes round its loop
O_Finish ==
    /\ oPc = "pool"
    /\ oRunning > 0
    /\ \E outcome \in {"saved", "duplicate", "error"} :
        LET count == IF outcome = "error" THEN oCount ELSE oCount + 1
        IN  /\ oCount' = count
            /\ oFiles' = IF outcome = "saved" THEN oFiles + 1 ELSE oFiles
            /\ OldPoolContinue(oQueue, oRunning - 1, count)
    /\ UNCHANGED <<oSaved, oCkSaved, oCkFiles>>
    /\ OldUnchanged

\* main(): the checkpoint after a page, then if (saved >= HARD) break
O_SavePage ==
    /\ oPc = "savepage"
    /\ oCkSaved' = oSaved
    /\ oCkFiles' = oFiles
    /\ oPc' = IF oSaved >= OldHARD(oLimit) THEN "saveslice" ELSE "fetch"
    /\ UNCHANGED <<oPlan, oSaved, oCount, oQueue, oRunning, oFiles>>
    /\ OldUnchanged

\* main(): the checkpoint of the next slice, then the next slice
O_SaveSlice ==
    /\ oPc = "saveslice"
    /\ oCkSaved' = oSaved
    /\ oCkFiles' = oFiles
    /\ oPlan' = Tail(oPlan)
    /\ oPc' = IF Tail(oPlan) # << >> /\ oSaved < OldHARD(oLimit) THEN "fetch" ELSE "final"
    /\ UNCHANGED <<oSaved, oCount, oQueue, oRunning, oFiles>>
    /\ OldUnchanged

\* main(): saveJSON(CHECKPOINT, { sliceFrom, sliceTo, offset, saved, done: true })
O_Final ==
    /\ oPc = "final"
    /\ oCkSaved' = oSaved
    /\ oCkFiles' = oFiles
    /\ oPc' = "done"
    /\ UNCHANGED <<oPlan, oSaved, oCount, oQueue, oRunning, oFiles>>
    /\ OldUnchanged

OldNext ==
    \/ O_FetchPage
    \/ O_Finish
    \/ O_SavePage
    \/ O_SaveSlice
    \/ O_Final

OldSpec == OldInit /\ [][OldNext]_vars

\* C26: with --limit N (N > 0) the number of files a run saves never exceeds
\* N, at every concurrency and for every number of pages and partitions, and
\* the saved count in the checkpoint is the number of files that were saved
\* when the checkpoint was written.
C26_LimitNeverOvershot ==
    oPc # "idle" => (oFiles <= oLimit /\ oCkSaved = oCkFiles)

\* C27: within one partition the pages are requested in increasing offset
\* order, each at the offset of the page before plus the page size (or, for a
\* new try of a request that failed, at the same offset), and no page is
\* requested while a candidate of an earlier page is still in the worker pool:
\* whenever main() is about to send a discovery request, no worker is in
\* flight and the offset follows that of the last request in the partition.
C27_PagesInOffsetOrder ==
    mpc = "fetch" =>
        /\ workers = {}
        /\ (lastReq # << >> /\ lastReq[1] = slices[si][1]) =>
                \/ pageAttempt = 0 /\ offset = lastReq[3] + pageSize
                \/ pageAttempt > 0 /\ offset = lastReq[3]

\* C27, its case: the page at offset 0 of the first partition went through the
\* pool, a file of it was saved, and main() has requested the page at offset
\* pageSize and is about to request the one after it
C27_Witness ==
    /\ mpc = "fetch"
    /\ runNo = 1
    /\ si = 1
    /\ firstReq = <<slices[1][1], slices[1][2], 0>>
    /\ lastReq = <<slices[1][1], slices[1][2], pageSize>>
    /\ offset = 2 * pageSize
    /\ {<<1, 0>>, <<1, pageSize>>} \subseteq processed
    /\ hashIdx # << >>
    /\ workers = {}

\* C28: when main() is about to send the first discovery request of a
\* partition it has come to from the partition before, its offset is 0 and the
\* checkpoint on disk holds the bounds of the new partition, offset 0 and done
\* false.
C28_TransitionPersistedBeforeRequest ==
    (mpc = "fetch" /\ lastReq # << >> /\ lastReq[1] # slices[si][1]) =>
        /\ offset = 0
        /\ ckptFile = Json(slices[si][1], slices[si][2], 0, saved, FALSE)

\* C28, its case: the first partition was paged to its empty page, none was
\* abandoned, and main() is about to send the first request of the second
\* partition
C28_Witness ==
    /\ mpc = "fetch"
    /\ runNo = 1
    /\ abandoned = {}
    /\ si = 2
    /\ pageAttempt = 0
    /\ lastReq # << >>
    /\ lastReq[1] = slices[1][1]
    /\ <<1, 0>> \in processed
    /\ offset = 0
    /\ ckptFile = Json(slices[2][1], slices[2][2], 0, saved, FALSE)

\* C29: when main() is about to request a page of the partition whose
\* previous page it has processed, the checkpoint on disk holds the bounds of
\* the current partition, the offset of the page to request, the current saved
\* count and done false.
C29_PageCheckpointBeforeNextPage ==
    (mpc = "fetch" /\ pageAttempt = 0 /\ lastReq # << >> /\ lastReq[1] = slices[si][1]) =>
        ckptFile = Json(slices[si][1], slices[si][2], offset, saved, FALSE)

\* C29, its case: the page at offset 0 of the first partition was processed
\* and a file of it was saved; the checkpoint names that partition at offset
\* pageSize with the saved count, and main() is about to request that page
C29_Witness ==
    /\ mpc = "fetch"
    /\ pageAttempt = 0
    /\ si = 1
    /\ lastReq = <<slices[1][1], slices[1][2], 0>>
    /\ <<1, 0>> \in processed
    /\ offset = pageSize
    /\ saved >= 1
    /\ ckptFile = Json(slices[1][1], slices[1][2], pageSize, saved, FALSE)

\* C30: a download whose digest is in the index the process has loaded ends as
\* a duplicate and not as an error: no error is caught for it, no record is
\* appended for it, its token is released and never committed (so the saved
\* count is not incremented for it) and the quota is what it was before the
\* worker took its token.
C30_DuplicateIsNotAnError ==
    \A w \in workers :
        (w.pc = "sleep" /\ w.c # 0 /\ Sha256(w.c) \in DOMAIN seen) =>
            /\ w.err = ""
            /\ NoRecordOf(w)
            /\ w.tok.nCommit = 0
            /\ w.tok.nRelease = 1
            /\ quota = createQuota(HARD, ck.saved)

\* the files of the output directory under a final name
SavedFiles == {path \in DOMAIN files : IsFinalName(path)}

\* the records of the hash index appended for the download w
RecordsOf(w) == {k \in 1..Len(hashIdx) : hashIdx[k].by = w.title /\ hashIdx[k].run = w.run}

\* C31: a worker that has committed its token has committed it once and has
\* appended exactly one hash index record; and when a first call of main(),
\* started from an empty hash index and a fresh checkpoint, has ended without
\* a failure, the saved count (in memory and in the checkpoint), the number of
\* hash index records and the number of files in the output directory are equal.
C31_SavedCountRecordsFilesAgree ==
    /\ \A w \in workers :
          (w.pc = "sleep" /\ w.tok.nCommit > 0) =>
              (w.tok.nCommit = 1 /\ Cardinality(RecordsOf(w)) = 1)
    /\ (mpc = "done" /\ runNo = 1 /\ startPos = <<1, 0>>) =>
          /\ ckptFile.saved = saved
          /\ saved = Len(hashIdx)
          /\ Cardinality(SavedFiles) = Len(hashIdx)

\* main() is at one of its writes of the checkpoint file
AtCheckpointWrite == mpc \in {"savepage", "saveslice", "finalsave"}

\* C32: no step of a worker writes the checkpoint file: a step that changes the
\* set of worker invocations, and any step taken while main() is not at one
\* of its checkpoint writes, leaves the checkpoint on disk as it was.
C32_WorkersNeverWriteCheckpoint ==
    [][ (runNo' = runNo /\ (workers' # workers \/ ~AtCheckpointWrite)) =>
            ckptFile' = ckptFile
      ]_vars

\* C32, its case: a worker has saved a file and committed its token while the
\* pool is running; the saved count in memory is ahead of the checkpoint on disk
C32_Witness ==
    /\ mpc = "pool"
    /\ ckptFile.kind = "json"
    /\ saved > ckptFile.saved
    /\ \E w \in workers : w.pc = "sleep" /\ w.tok.nCommit = 1

\* the worker invocations whose writeFile on the hash index has been called and
\* has not yet resolved
Appending == {w \in workers : w.pc = "append"}

\* C33: appends to the hash index by concurrent workers are serialized: at no
\* time are the appends of two workers in progress together.
C33_AppendsSerialized == Cardinality(Appending) <= 1

\* ---------------------------------------------- yearSlices taken alone
\* years run from 0 to MaxYear, spans from 1 to MaxSpan
MaxYear == 6
MaxSpan == 4

SliceInit ==
    /\ quotaLimit = HARD
    /\ quota = createQuota(HARD, 0)
    /\ tokens = << >>
    /\ ckptFile = NoFile
    /\ wrote = 0
    /\ hashIdx = << >>
    /\ files = EmptyFn
    /\ seen = EmptyFn
    /\ workers = {}
    /\ IdleMain
    /\ NoHistory
    /\ scenario = "general"
    /\ PoolIdle
    /\ RetryIdle
    /\ licShort = << >>
    /\ LICENSES = {}
    /\ licOut = << >>
    /\ BatchIdle
    /\ OldIdle
    /\ yFrom \in 0..MaxYear
    /\ yTo \in yFrom..MaxYear
    /\ ySpan \in 1..MaxSpan
    /\ ySlices = << >>
    /\ yState = "called"

\* Array.from(yearSlices(from, to, span)): the generator is run to its end
Y_Slices ==
    /\ yState = "called"
    /\ ySlices' = yearSlices(yFrom, yTo, ySpan)
    /\ yState' = "done"
    /\ UNCHANGED <<quotaVars, diskVars, seen, mainVars, workers, histVars, scenario,
                   poolVars, retryVars, licVars, batchVars, oldVars, yFrom, yTo, ySpan>>

SliceNext == Y_Slices

SliceSpec == SliceInit /\ [][SliceNext]_vars

\* the years of the range r
YearsOf(r) == r[1]..r[2]

\* C34: for integers from <= to and span >= 1, yearSlices(from, to, span)
\* yields a finite list of ranges [a, b] that are non-empty, of width at most
\* span, in ascending order, contiguous (each starts at the end of the one
\* before plus one), pairwise disjoint, and whose union is exactly from..to.
C34_YearSlicesPartition ==
    yState = "done" =>
        /\ Len(ySlices) >= 1
        /\ \A k \in 1..Len(ySlices) :
              /\ ySlices[k][1] <= ySlices[k][2]
              /\ ySlices[k][2] - ySlices[k][1] + 1 <= ySpan
        /\ \A k \in 1..(Len(ySlices) - 1) : ySlices[k + 1][1] = ySlices[k][2] + 1
        /\ \A j, k \in 1..Len(ySlices) :
              j # k => YearsOf(ySlices[j]) \cap YearsOf(ySlices[k]) = {}
        /\ UNION {YearsOf(ySlices[k]) : k \in 1..Len(ySlices)} = yFrom..yTo

\* C34, its case: the generator has yielded three ranges or more, the last of
\* them narrower than span
C34_Witness ==
    /\ yState = "done"
    /\ Len(ySlices) >= 3
    /\ ySpan >= 2
    /\ ySlices[Len(ySlices)][2] - ySlices[Len(ySlices)][1] + 1 < ySpan

\* ------------------------------------------ the saved count of the checkpoint
\* C35: over the life of the pipeline, restarts by startLoop after a failure of
\* main() included, every write of the checkpoint stores a saved count that is
\* at least the saved count stored by the write before it. (The writes looked
\* at are those of a process that was not started anew: the first invocation
\* of main() and the invocations startLoop makes after a failure.)
C35_SavedCountNeverDecreases ==
    [][ (/\ ckptFile' # ckptFile
         /\ ckptFile'.kind = "json"
         /\ (runNo' = 1 \/ lost' # << >>)) =>
            ckptFile'.saved >= wrote ]_vars

\* C36: from an empty hash index and no checkpoint (or one with saved 0), in
\* every reachable state, failures of main() at any step and restarts
\* included, the saved count stored in the checkpoint is at most the number of
\* records in the hash index file.
C36_SavedCountAtMostRecords ==
    ckptFile.kind = "json" => ckptFile.saved <= Len(hashIdx)

\* C36, its case: a main() started again after a failure has written a
\* checkpoint with a saved count above 0, and the hash index holds more records
\* than it counts
C36_Witness ==
    /\ runNo = 2
    /\ lost # << >>
    /\ ckptFile.kind = "json"
    /\ ckptFile.saved >= 1
    /\ wrote = ckptFile.saved
    /\ Len(hashIdx) > ckptFile.saved

\* ------------------------------------------------ a run on a complete checkpoint
\* C37: a main() that has loaded a checkpoint with done true sends no discovery
\* request and starts no download, leaves the hash index and the partition,
\* offset and saved count of the checkpoint as they were, and ends having
\* written the checkpoint again with done true.
C37_CompleteCheckpointIsKept ==
    done =>
        /\ mpc \in {"final", "finalsave", "done"}
        /\ firstReq = << >>
        /\ {w \in workers : w.run = runNo} = {}
        /\ Len(hashIdx) = idxAtLoad
        /\ ckptFile.kind = "json"
        /\ ckptFile.sliceFrom = ck.sliceFrom
        /\ ckptFile.sliceTo = ck.sliceTo
        /\ ckptFile.offset = ck.offset
        /\ ckptFile.saved = ck.saved
        /\ ckptFile.done

\* C37, its case: the run after a complete run has ended, with images saved by
\* the run before it
C37_Witness ==
    /\ done
    /\ mpc = "done"
    /\ runNo = 2
    /\ ck.saved >= 1
    /\ ckptFile = ck

\* ------------------------------------------------------ the temporary paths
\* the downloads of one page whose pipeline into destBase + '.part' is open
Writing == {w \in Pool : w.pc = "write"}

\* C39: in no reachable state do two downloads that are in flight at the same
\* time write to the same temporary path, pages with two titles of the same
\* sanitized, extension-stripped base name included.
C39_TempPathsDistinct ==
    \A w1, w2 \in Writing : w1 # w2 => TmpPath(w1.title) # TmpPath(w2.title)

\* ------------------------------------------------- startLoop in one process
\* The life of one process: main() and its workers, and startLoop calling
\* main() again after a failure.  The process is not killed.
LoopNext ==
    \/ M_LoadHashIndex
    \/ M_LoadCheckpoint
    \/ M_FetchPage
    \/ M_SavePage
    \/ M_SaveSlice
    \/ M_LoadLatest
    \/ M_FinalSave
    \/ \E w \in workers : W_Fetch(w)
    \/ \E w \in workers : W_Write(w)
    \/ \E w \in workers : W_Validate(w)
    \/ \E w \in workers : W_Unlink(w)
    \/ \E w \in workers : W_Rename(w)
    \/ \E w \in workers : W_Append(w)
    \/ \E w \in workers : W_Finish(w)
    \/ S_Restart

\* every request, file operation and timer of the process eventually settles
\* and the event loop runs its continuation
LoopSpec == Init /\ [][LoopNext]_vars /\ WF_vars(LoopNext)

\* startLoop has left its loop: the call of main() it awaited has returned
Returned == mpc = "done"

\* C40: startLoop returns only at the end of a call of main() that did not
\* throw; and when the candidate space is finite, every request gets an answer
\* and only finitely many failures escape main(), a checkpoint with done true
\* is eventually on disk and startLoop has returned.
C40_StartLoopReturns ==
    /\ [][ (Returned' /\ ~Returned) => mpc = "finalsave" ]_vars
    /\ (<>[](mpc # "crashed")) =>
           <>[](Returned /\ ckptFile.kind = "json" /\ ckptFile.done)

\* C40, its case: startLoop has returned from the call of main() it made after
\* a failure of the call before
C40_Witness ==
    /\ Returned
    /\ runNo = 2
    /\ lost # << >>
    /\ ckptFile.kind = "json"
    /\ ckptFile.done

====
